---- MODULE Spec2Model ----
(***************************************************************************)
(* GhostChannel: device-scoped encrypted-message relay.                    *)
(*                                                                         *)
(* The module models the backend of the relay: the ChatGateway (presence   *)
(* tracker, send / delivered / read handlers, Redis fan-out), the          *)
(* MessagesService store and the ConversationsService resolver.  Every     *)
(* await of a handler is a step boundary: the code between two awaits runs *)
(* to completion on the node event loop and is one action.                 *)
(***************************************************************************)
EXTENDS Integers, Sequences, FiniteSets, TLC

(***************************************************************************)
(* Bounds of the model.                                                    *)
(***************************************************************************)
MaxSends == 2       \* handleMessage invocations
MaxLeaveSends == 1  \* handleMessage invocations racing with participants leaving
MaxReads == 1       \* handleRead invocations
MaxClock == 2       \* the last instant of the clock
MaxCreates == 2     \* createConversation invocations
MaxConversations == 3 \* conversation rows created by sequential resolve calls
MaxDeviceTime == 4  \* the latest creation time of a device row
MaxDrops == 1       \* times the receiving client's connection is dropped
MaxSnapshots == 2   \* users:online events a connection is sent
MaxDeletes == 1     \* deleteConversationMessages announcements
MaxListeners == 2   \* handler sets attached to one socket
MaxOnlineRequests == 2 \* request:online-users emissions of a service
MaxNonce == 1       \* the nonces encryptMessage draws
MaxPeerCreates == 2 \* createConversation invocations whose broadcast is followed

(***************************************************************************)
(* The population: users, their devices, the gateway instances and the     *)
(* transport connections.  A connection is opened against one instance and *)
(* carries a token whose subject is one user.                              *)
(***************************************************************************)
Users == {"u1", "u2", "u3"}
Instances == {1, 2}
Sockets == {"s1", "s2", "s3", "s4"}

SocketUser(s) == IF s \in {"s1", "s2", "s3"} THEN "u1" ELSE "u2"
SocketInstance(s) == IF s \in {"s1", "s2"} THEN 1 ELSE 2

Null == 0          \* a timestamp column that is NULL
NoDevice == ""     \* a device id that is null / undefined

Devices == {"a1", "a2", "b1"}

\* the web clients: the browser behind connection s1 (u1) and the one behind
\* connection s4 (u2)
Clients == {"s1", "s4"}
DeviceUser(d) == IF d \in {"a1", "a2"} THEN "u1" ELSE "u2"

VARIABLES
  userSockets,    \* per instance: Map<userId, Set<socketId>>
  sock,           \* per connection: position of its connection lifecycle
  published,      \* presence events published on chat:presence, per <<type, user>>
  emitted,        \* per instance and user: the last presence event server.emit sent
  inbox,          \* per instance: broker messages delivered to its subscriber, FIFO
  received,       \* per connection: events emitted to it, in order
  conversations,  \* conversation rows with their participant rows
  convSeq,        \* number of conversation rows ever created
  messages,       \* message rows
  msgSeq,         \* number of message rows ever created
  clock,          \* the value new Date() returns
  sendH,          \* handleMessage invocations
  readH,          \* handleRead invocations
  deleteH,        \* ConversationsController.deleteConversationMessages invocation
  friendships,    \* friendship rows
  currentDeviceId,\* users.current_device_id
  createH,        \* ConversationsController.createConversation invocations
  devices,        \* device rows (Key Registry)
  device,         \* per client: the device the client is authenticated with
  clientConversations, \* per client: the conversations state of the chat page
  activeConversation,  \* per client: id of the conversation that is open, 0 if none
  loadH,          \* per client: the loadMessages or loadConversations call
  lockView,       \* per client: what the lock predicates returned when last rendered
  composer,       \* per client: the message composer and its handleSendMessage call
  requests,       \* per client: the network calls the client has made
  sharedKeys,     \* per client: the sharedKeys cache of derived keys
  clientMessages, \* per client: messagesByConversation, with the decrypted texts
  seen,           \* per client: how many events of its connection it has handled
  decryptH,       \* per client: the decryptMessage call and its retry timers
  keysApi,        \* per client: whether its requests to the API currently succeed
  socketService   \* the client's SocketService singleton and the socket it holds

vars == <<userSockets, sock, published, emitted, inbox, received, conversations,
          convSeq, messages, msgSeq, clock, sendH, readH, deleteH, friendships,
          currentDeviceId, createH, devices, device, clientConversations,
          activeConversation, loadH, lockView, composer, requests, sharedKeys,
          clientMessages, seen, decryptH, keysApi, socketService>>

gatewayVars == <<userSockets, sock, published, emitted, inbox, received>>
storeVars == <<messages, msgSeq, deleteH>>
resolverVars == <<friendships, currentDeviceId, createH>>
registryVars == <<devices>>
pageVars == <<device, clientConversations, activeConversation, loadH>>
composerVars == <<composer, requests>>
viewVars == <<clientMessages, seen>>
decryptVars == <<decryptH, keysApi>>
clientVars == <<pageVars, lockView, composerVars, sharedKeys, viewVars, decryptVars,
                socketService>>
serverVars == <<gatewayVars, conversations, convSeq, storeVars, clock, sendH, readH,
                resolverVars, registryVars>>

(***************************************************************************)
(* Rows and lookups.                                                       *)
(***************************************************************************)
ConvIds == {c.id : c \in conversations}
ConvById(id) == CHOOSE c \in conversations : c.id = id

MsgIds == {m.id : m \in messages}
MsgById(id) == CHOOSE m \in messages : m.id = id

\* an isParticipant that looks the conversation up and forgets the user
isParticipant_anyUser(conversationId, userId) ==
  \E c \in conversations : c.id = conversationId

\* ConversationsService.isParticipant: findUnique on (conversationId, userId)
isParticipant(conversationId, userId) ==
  \E c \in conversations : c.id = conversationId /\ userId \in c.participants

\* ConversationsService.getParticipantIds: findMany where conversationId
getParticipantIds(conversationId) ==
  UNION {c.participants : c \in {x \in conversations : x.id = conversationId}}

(***************************************************************************)
(* MessagesService, as functions of the message table.                     *)
(***************************************************************************)
createMessage(store, id, conversationId, senderUserId, senderDeviceId, payload, now) ==
  store \cup {[id |-> id, conversationId |-> conversationId,
               senderUserId |-> senderUserId, senderDeviceId |-> senderDeviceId,
               ciphertext |-> payload.ciphertext, nonce |-> payload.nonce,
               createdAt |-> now, deliveredAt |-> Null, readAt |-> Null]}

markDelivered(store, messageId, now) ==
  {IF m.id = messageId THEN [m EXCEPT !.deliveredAt = now] ELSE m : m \in store}

markRead(store, messageId, now) ==
  {IF m.id = messageId THEN [m EXCEPT !.readAt = now] ELSE m : m \in store}

deleteByConversationId(store, conversationId) ==
  {m \in store : m.conversationId # conversationId}

(***************************************************************************)
(* Socket.io emission and the Redis broker.                                *)
(***************************************************************************)
\* the sockets userSockets of instance i holds for the given users
\* a broadcast to every connection of the instance
LocalSockets_everyone(i, userIds) ==
  UNION {userSockets[i][u] : u \in DOMAIN userSockets[i]}

LocalSockets(i, userIds) ==
  UNION {userSockets[i][u] : u \in userIds \cap DOMAIN userSockets[i]}

\* server.to(socketId).emit(ev) for every socketId in targets
EmitTo(targets, ev) ==
  [s \in Sockets |-> IF s \in targets THEN Append(received[s], ev) ELSE received[s]]

\* redisClient.publish: Redis hands the message to every subscriber, in order
Publish(q, data) == [i \in Instances |-> Append(q[i], data)]

\* what a client encrypts: a plaintext under a key; AES-GCM gives the plaintext
\* back only under the same key and nonce
Encrypt(text, key, nonce) ==
  [ciphertext |-> [text |-> text, key |-> key, iv |-> nonce], nonce |-> nonce]
SomePayload == Encrypt("hi", {"a1", "b1"}, 1)

\* the device a connection's client is authenticated with
SocketDevice(s) == IF SocketUser(s) = "u1" THEN "a1" ELSE "b1"

IdleSend == [pc |-> "idle", client |-> "s1", conversationId |-> 0,
             senderDeviceId |-> NoDevice, payload |-> SomePayload,
             messageId |-> 0, participantIds |-> {}, result |-> "none"]
IdleLoad == [pc |-> "idle", conversationId |-> 0, queue |-> <<>>]
IdleRead == [pc |-> "idle", client |-> "s1", messageId |-> 0, readAt |-> Null,
             conversationId |-> 0, participantIds |-> {}, result |-> "none"]
IdleDelete == [pc |-> "idle", conversationId |-> 0, participantIds |-> {}]

\* invocations are numbered in the order they arrive
NextIdle(h, H) == h[H].pc = "idle" /\ \A k \in DOMAIN h : k < H => h[k].pc # "idle"

Connected(s) == SocketUser(s) \in DOMAIN userSockets[SocketInstance(s)]
                /\ s \in userSockets[SocketInstance(s)][SocketUser(s)]


(***************************************************************************)
(* ChatGateway.handleMessage ('message:send').                             *)
(***************************************************************************)
\* the messageData object handleMessage builds from the created row
messageData(type, id, conversationId, senderUserId, senderDeviceId, payload) ==
  [type |-> type, id |-> id, conversationId |-> conversationId,
   senderUserId |-> senderUserId, senderDeviceId |-> senderDeviceId,
   ciphertext |-> payload.ciphertext, nonce |-> payload.nonce]

\* entry up to the resolution of isParticipant, and the early return
HandleMessage_isParticipant(h, s, c, d, x) ==
  /\ NextIdle(sendH, h)
  /\ Connected(s)
  /\ sendH' = [sendH EXCEPT ![h] =
       IF isParticipant(c, SocketUser(s))
       THEN [@ EXCEPT !.pc = "createMessage", !.client = s, !.conversationId = c,
                      !.senderDeviceId = d, !.payload = x]
       ELSE [@ EXCEPT !.pc = "done", !.client = s, !.conversationId = c,
                      !.senderDeviceId = d, !.payload = x, !.result = "error"]]
  /\ UNCHANGED <<gatewayVars, conversations, convSeq, storeVars, clock, readH,
                 resolverVars, registryVars, clientVars>>

\* await messagesService.createMessage: the row is inserted
HandleMessage_createMessage(h) ==
  /\ sendH[h].pc = "createMessage"
  /\ IF /\ sendH[h].conversationId \in ConvIds
        /\ \E dv \in devices : dv.id = sendH[h].senderDeviceId
     THEN /\ msgSeq' = msgSeq + 1
          /\ messages' = createMessage(messages, msgSeq + 1, sendH[h].conversationId,
                                       SocketUser(sendH[h].client),
                                       sendH[h].senderDeviceId, sendH[h].payload, clock)
          /\ sendH' = [sendH EXCEPT ![h].pc = "getParticipantIds",
                                    ![h].messageId = msgSeq + 1]
     ELSE \* the conversation or device row is gone: the insert violates a foreign key
          /\ sendH' = [sendH EXCEPT ![h].pc = "done", ![h].result = "exception"]
          /\ UNCHANGED <<messages, msgSeq, socketService>>
  /\ UNCHANGED <<gatewayVars, conversations, convSeq, clock, readH, deleteH,
                 resolverVars, registryVars, clientVars>>

\* await conversationsService.getParticipantIds
HandleMessage_getParticipantIds(h) ==
  /\ sendH[h].pc = "getParticipantIds"
  /\ sendH' = [sendH EXCEPT ![h].pc = "emit",
                            ![h].participantIds = getParticipantIds(sendH[h].conversationId)]
  /\ UNCHANGED <<gatewayVars, conversations, convSeq, storeVars, clock, readH,
                 resolverVars, registryVars, clientVars>>

\* the local emit loop and the call of redisClient.publish, run without an await
HandleMessage_emit(h) ==
  /\ sendH[h].pc = "emit"
  /\ LET i == SocketInstance(sendH[h].client)
         ev == messageData("message:new", sendH[h].messageId, sendH[h].conversationId,
                           SocketUser(sendH[h].client), sendH[h].senderDeviceId,
                           sendH[h].payload)
     IN /\ received' = EmitTo(LocalSockets(i, sendH[h].participantIds), ev)
        /\ inbox' = Publish(inbox, [type |-> "new_message",
                                    participantIds |-> sendH[h].participantIds,
                                    id |-> sendH[h].messageId,
                                    conversationId |-> sendH[h].conversationId,
                                    message |-> ev])
  /\ sendH' = [sendH EXCEPT ![h].pc = "return"]
  /\ UNCHANGED <<userSockets, sock, published, emitted, conversations, convSeq,
                 storeVars, clock, readH, resolverVars, registryVars, clientVars>>

\* the publish resolved: return { success: true, messageId }
HandleMessage_return(h) ==
  /\ sendH[h].pc = "return"
  /\ sendH' = [sendH EXCEPT ![h].pc = "done", ![h].result = "success"]
  /\ UNCHANGED <<gatewayVars, conversations, convSeq, storeVars, clock, readH,
                 resolverVars, registryVars, clientVars>>

(***************************************************************************)
(* ChatGateway.handleRedisMessage and the other subscriber callbacks: the  *)
(* subscriber of instance i takes the next broker message.                 *)
(***************************************************************************)
handleRedisMessage(i, data) ==
  IF data.type = "new_message"
  THEN EmitTo(LocalSockets(i, data.participantIds), data.message)
  ELSE IF data.type = "messages_deleted"
  THEN EmitTo(LocalSockets(i, data.participantIds),
              [type |-> "messages:deleted", id |-> 0,
               conversationId |-> data.conversationId])
  ELSE received

HandleRedisMessage(i) ==
  /\ inbox[i] # <<>>
  /\ Head(inbox[i]).type \in {"new_message", "messages_deleted"}
  /\ received' = handleRedisMessage(i, Head(inbox[i]))
  /\ inbox' = [inbox EXCEPT ![i] = Tail(@)]
  /\ UNCHANGED <<userSockets, sock, published, emitted, conversations, convSeq,
                 storeVars, clock, sendH, readH, resolverVars, registryVars, clientVars>>

(***************************************************************************)
(* ChatGateway.handleDelivered and handleRead.                             *)
(***************************************************************************)
\* 'message:delivered': prisma update; an unknown id throws and changes nothing
HandleDelivered(s, m) ==
  /\ Connected(s)
  /\ m \in MsgIds
  /\ messages' = markDelivered(messages, m, clock)
  /\ UNCHANGED <<gatewayVars, conversations, convSeq, msgSeq, clock, sendH, readH,
                 deleteH, resolverVars, registryVars, clientVars>>

\* 'message:read' up to the resolution of markRead
HandleRead_markRead(r, s, m) ==
  /\ NextIdle(readH, r)
  /\ Connected(s)
  /\ IF m \in MsgIds
     THEN /\ messages' = markRead(messages, m, clock)
          /\ readH' = [readH EXCEPT ![r] =
               [@ EXCEPT !.pc = "getParticipantIds", !.client = s, !.messageId = m,
                         !.readAt = clock,
                         !.conversationId = MsgById(m).conversationId]]
     ELSE /\ readH' = [readH EXCEPT ![r] =
               [@ EXCEPT !.pc = "done", !.client = s, !.messageId = m,
                         !.result = "exception"]]
          /\ UNCHANGED messages
  /\ UNCHANGED <<gatewayVars, conversations, convSeq, msgSeq, clock, sendH, deleteH,
                 resolverVars, registryVars, clientVars>>

HandleRead_getParticipantIds(r) ==
  /\ readH[r].pc = "getParticipantIds"
  /\ readH' = [readH EXCEPT ![r].pc = "emit",
                            ![r].participantIds = getParticipantIds(readH[r].conversationId)]
  /\ UNCHANGED <<gatewayVars, conversations, convSeq, storeVars, clock, sendH,
                 resolverVars, registryVars, clientVars>>

\* the broadcast loop of handleRead and its return
HandleRead_emit(r) ==
  /\ readH[r].pc = "emit"
  /\ received' = EmitTo(LocalSockets(SocketInstance(readH[r].client),
                                     readH[r].participantIds),
                        [type |-> "message:read", id |-> readH[r].messageId,
                         readAt |-> readH[r].readAt])
  /\ readH' = [readH EXCEPT ![r].pc = "done", ![r].result = "success"]
  /\ UNCHANGED <<userSockets, sock, published, emitted, inbox, conversations,
                 convSeq, storeVars, clock, sendH, resolverVars, registryVars, clientVars>>

(***************************************************************************)
(* ConversationsController.deleteConversation: the caller leaves the       *)
(* conversation; the last one to leave removes it and its messages.        *)
(***************************************************************************)
DeleteConversation(u, id, deleteMessages) ==
  /\ isParticipant(id, u)
  /\ LET c == ConvById(id)
         left == [c EXCEPT !.participants = @ \ {u}]
     IN /\ conversations' = IF left.participants = {}
                            THEN conversations \ {c}
                            ELSE (conversations \ {c}) \cup {left}
        /\ messages' = IF deleteMessages \/ left.participants = {}
                       THEN deleteByConversationId(messages, id)
                       ELSE messages
  /\ UNCHANGED <<gatewayVars, convSeq, msgSeq, clock, sendH, readH, deleteH,
                 resolverVars, registryVars, clientVars>>

(***************************************************************************)
(* ConversationsController.deleteConversationMessages: DELETE              *)
(* /conversations/:id/messages removes the messages for every participant  *)
(* and announces it on chat:messages.                                      *)
(***************************************************************************)
\* await conversationsService.isParticipant; a stranger gets the error object
DeleteConversationMessages_isParticipant(u, id) ==
  /\ deleteH.pc = "idle"
  /\ deleteH' = IF isParticipant(id, u)
                THEN [IdleDelete EXCEPT !.pc = "deleteByConversationId",
                                        !.conversationId = id]
                ELSE deleteH
  /\ UNCHANGED <<gatewayVars, conversations, convSeq, messages, msgSeq, clock, sendH,
                 readH, resolverVars, registryVars, clientVars>>

\* await messagesService.deleteByConversationId
DeleteConversationMessages_deleteByConversationId ==
  /\ deleteH.pc = "deleteByConversationId"
  /\ messages' = deleteByConversationId(messages, deleteH.conversationId)
  /\ deleteH' = [deleteH EXCEPT !.pc = "getParticipantIds"]
  /\ UNCHANGED <<gatewayVars, conversations, convSeq, msgSeq, clock, sendH, readH,
                 resolverVars, registryVars, clientVars>>

\* await conversationsService.getParticipantIds
DeleteConversationMessages_getParticipantIds ==
  /\ deleteH.pc = "getParticipantIds"
  /\ deleteH' = [deleteH EXCEPT !.pc = "publish",
                    !.participantIds = getParticipantIds(deleteH.conversationId)]
  /\ UNCHANGED <<gatewayVars, conversations, convSeq, messages, msgSeq, clock, sendH,
                 readH, resolverVars, registryVars, clientVars>>

\* await redisClient.publish('chat:messages', messages_deleted); return
DeleteConversationMessages_publish ==
  /\ deleteH.pc = "publish"
  /\ inbox' = Publish(inbox, [type |-> "messages_deleted",
                              conversationId |-> deleteH.conversationId,
                              participantIds |-> deleteH.participantIds])
  /\ deleteH' = IdleDelete
  /\ UNCHANGED <<userSockets, sock, published, emitted, received, conversations,
                 convSeq, messages, msgSeq, clock, sendH, readH, resolverVars,
                 registryVars, clientVars>>


(***************************************************************************)
(* ChatGateway.handleConnection / handleDisconnect: the Presence Tracker.  *)
(* sock[s] is the position of connection s:                                *)
(*   new              not yet connected                                    *)
(*   publishing       registered, handleConnection awaits its publish      *)
(*   online           handleConnection has returned                        *)
(*   closedPublishing disconnected while handleConnection awaits           *)
(*   closed           disconnected (or dropped unauthenticated), nothing    *)
(*                    pending                                              *)
(***************************************************************************)
Bump(counter, e) == [counter EXCEPT ![e] = @ + 1]

\* userSockets.get(userId).add(client.id), creating the set when missing
AddSocket(reg, u, s) ==
  [v \in DOMAIN reg \cup {u} |->
     IF v = u THEN (IF u \in DOMAIN reg THEN reg[u] ELSE {}) \cup {s} ELSE reg[v]]

\* a handleDisconnect that does not look at the size of the set
IsLastSocket_anySize(reg, u, s) == TRUE

\* sockets.delete(client.id) left the set empty
IsLastSocket(reg, u, s) == reg[u] \ {s} = {}

\* sockets.delete(client.id), and userSockets.delete(userId) when it was the last
RemoveSocket(reg, u, s) ==
  IF IsLastSocket(reg, u, s)
  THEN [v \in DOMAIN reg \ {u} |-> reg[v]]
  ELSE [reg EXCEPT ![u] = @ \ {s}]

\* entry up to the await of the publish; tokenOk: the token is there and verifies
HandleConnection_register(s, tokenOk) ==
  /\ sock[s] = "new"
  /\ IF tokenOk
     THEN LET i == SocketInstance(s)
              u == SocketUser(s)
          IN /\ userSockets' = [userSockets EXCEPT ![i] = AddSocket(@, u, s)]
             /\ inbox' = Publish(inbox, [type |-> "user_online", userId |-> u])
             /\ published' = Bump(published, <<"user_online", u>>)
             /\ sock' = [sock EXCEPT ![s] = "publishing"]
     ELSE \* client.disconnect(): handleDisconnect finds no userId on the socket
          /\ sock' = [sock EXCEPT ![s] = "closed"]
          /\ UNCHANGED <<userSockets, inbox, published, socketService>>
  /\ UNCHANGED <<emitted, received, conversations, convSeq, storeVars, clock, sendH,
                 readH, resolverVars, registryVars, clientVars>>

\* the publish resolved: server.emit('user:online') and the snapshot to the client
HandleConnection_emit(s) ==
  /\ sock[s] \in {"publishing", "closedPublishing"}
  /\ LET i == SocketInstance(s)
     IN /\ emitted' = [emitted EXCEPT ![i][SocketUser(s)] = "user:online"]
        /\ received' = IF sock[s] = "publishing"
                       THEN EmitTo({s}, [type |-> "users:online",
                                         userIds |-> DOMAIN userSockets[i]])
                       ELSE received
  /\ sock' = [sock EXCEPT ![s] = IF @ = "publishing" THEN "online" ELSE "closed"]
  /\ UNCHANGED <<userSockets, published, inbox, conversations, convSeq, storeVars,
                 clock, sendH, readH, resolverVars, registryVars, clientVars>>

HandleDisconnect(s) ==
  /\ sock[s] \in {"publishing", "online"}
  /\ LET i == SocketInstance(s)
         u == SocketUser(s)
     IN /\ userSockets' = [userSockets EXCEPT ![i] = RemoveSocket(@, u, s)]
        /\ IF IsLastSocket(userSockets[i], u, s)
           THEN /\ inbox' = Publish(inbox, [type |-> "user_offline", userId |-> u])
                /\ published' = Bump(published, <<"user_offline", u>>)
                /\ emitted' = [emitted EXCEPT ![i][u] = "user:offline"]
           ELSE UNCHANGED <<inbox, published, emitted, socketService>>
  /\ sock' = [sock EXCEPT ![s] = IF @ = "publishing" THEN "closedPublishing" ELSE "closed"]
  /\ UNCHANGED <<received, conversations, convSeq, storeVars, clock, sendH, readH,
                 resolverVars, registryVars, clientVars>>

\* 'request:online-users': the keys of the instance's userSockets
HandleRequestOnlineUsers(s) ==
  /\ sock[s] = "online"
  /\ received' = EmitTo({s}, [type |-> "users:online",
                              userIds |-> DOMAIN userSockets[SocketInstance(s)]])
  /\ UNCHANGED <<userSockets, sock, published, emitted, inbox, conversations, convSeq,
                 storeVars, clock, sendH, readH, resolverVars, registryVars, clientVars>>

\* the subscriber of instance i takes a presence event: server.emit to its clients
HandleRedisPresence(i) ==
  /\ inbox[i] # <<>>
  /\ Head(inbox[i]).type \in {"user_online", "user_offline"}
  /\ LET data == Head(inbox[i])
         ev == IF data.type = "user_online" THEN "user:online" ELSE "user:offline"
     IN emitted' = [emitted EXCEPT ![i][data.userId] = ev]
  /\ inbox' = [inbox EXCEPT ![i] = Tail(@)]
  /\ UNCHANGED <<userSockets, sock, published, received, conversations, convSeq,
                 storeVars, clock, sendH, readH, resolverVars, registryVars, clientVars>>

(***************************************************************************)
(* AuthService.login with a device: the device becomes the user's current  *)
(* device.                                                                 *)
(***************************************************************************)
Login(u, d) ==
  /\ DeviceUser(d) = u
  /\ currentDeviceId' = [currentDeviceId EXCEPT ![u] = d]
  /\ UNCHANGED <<gatewayVars, conversations, convSeq, storeVars, clock, sendH, readH,
                 friendships, createH, registryVars, clientVars>>

(***************************************************************************)
(* ConversationsController.createConversation for a direct conversation    *)
(* (participantUserIds = [peer], isGroup false) and the                    *)
(* ConversationsService.createConversation it calls.  startSeq notes how   *)
(* many conversations had been created when the call arrived.              *)
(***************************************************************************)
IdleCreate == [pc |-> "idle", creatorId |-> "u1", peerId |-> "u1",
               createdByDeviceId |-> NoDevice, targetDeviceId |-> NoDevice,
               startSeq |-> 0, result |-> 0,
               resultCreatedBy |-> NoDevice, resultTarget |-> NoDevice]

\* a friendship check that accepts any two users
areFriends_anyone(userId1, userId2) == TRUE

\* FriendsService.areFriends
areFriends(userId1, userId2) == {userId1, userId2} \in friendships

\* the rows the findFirst of createConversation can return
ExistingConversations(createdByDeviceId, targetDeviceId, participantUserIds) ==
  {c \in conversations :
     /\ \/ (c.createdByDeviceId = createdByDeviceId /\ c.targetDeviceId = targetDeviceId)
        \/ (c.createdByDeviceId = targetDeviceId /\ c.targetDeviceId = createdByDeviceId)
     /\ c.participants \subseteq participantUserIds}

\* controller entry up to the resolution of prisma.user.findUnique
CreateConversation_findTargetUser(k, u, d, p, bodyTarget) ==
  /\ NextIdle(createH, k)
  /\ DeviceUser(d) = u
  /\ p # u
  /\ bodyTarget # NoDevice => DeviceUser(bodyTarget) = p
  /\ createH' = [createH EXCEPT ![k] =
       [@ EXCEPT !.pc = "areFriends", !.creatorId = u, !.peerId = p,
                 !.createdByDeviceId = d,
                 !.targetDeviceId = IF bodyTarget # NoDevice THEN bodyTarget
                                    ELSE currentDeviceId[p],
                 !.startSeq = convSeq]]
  /\ UNCHANGED <<gatewayVars, conversations, convSeq, storeVars, clock, sendH, readH,
                 friendships, currentDeviceId, registryVars, clientVars>>

\* await friendsService.areFriends, and the BadRequestException
CreateConversation_areFriends(k) ==
  /\ createH[k].pc = "areFriends"
  /\ createH' = [createH EXCEPT ![k].pc =
       IF ~areFriends(createH[k].creatorId, createH[k].peerId) THEN "failed"
       ELSE IF createH[k].createdByDeviceId # NoDevice /\ createH[k].targetDeviceId # NoDevice
       THEN "findFirst"
       ELSE "create"]
  /\ UNCHANGED <<gatewayVars, conversations, convSeq, storeVars, clock, sendH, readH,
                 friendships, currentDeviceId, registryVars, clientVars>>

\* await prisma.conversation.findFirst: any matching row may come back
CreateConversation_findFirst(k) ==
  /\ createH[k].pc = "findFirst"
  /\ LET found == ExistingConversations(createH[k].createdByDeviceId,
                                        createH[k].targetDeviceId,
                                        {createH[k].creatorId, createH[k].peerId})
     IN \/ /\ found = {}
           /\ createH' = [createH EXCEPT ![k].pc = "create"]
        \/ \E c \in found :
             createH' = [createH EXCEPT ![k] =
               IF Cardinality(c.participants) = 2
               THEN [@ EXCEPT !.pc = "publish", !.result = c.id,
                              !.resultCreatedBy = c.createdByDeviceId,
                              !.resultTarget = c.targetDeviceId]
               ELSE [@ EXCEPT !.pc = "create"]]
  /\ UNCHANGED <<gatewayVars, conversations, convSeq, storeVars, clock, sendH, readH,
                 friendships, currentDeviceId, registryVars, clientVars>>

\* await prisma.conversation.create
CreateConversation_create(k) ==
  /\ createH[k].pc = "create"
  /\ convSeq' = convSeq + 1
  /\ conversations' = conversations \cup
       {[id |-> convSeq + 1, createdByUserId |-> createH[k].creatorId,
         createdByDeviceId |-> createH[k].createdByDeviceId,
         targetDeviceId |-> createH[k].targetDeviceId,
         participants |-> {createH[k].creatorId, createH[k].peerId}]}
  /\ createH' = [createH EXCEPT ![k].pc = "publish", ![k].result = convSeq + 1,
                                  ![k].resultCreatedBy = createH[k].createdByDeviceId,
                                  ![k].resultTarget = createH[k].targetDeviceId]
  /\ UNCHANGED <<gatewayVars, storeVars, clock, sendH, readH, friendships,
                 currentDeviceId, registryVars, clientVars>>

\* the controller publishes conversation_created and returns the conversation
CreateConversation_publish(k) ==
  /\ createH[k].pc = "publish"
  /\ inbox' = Publish(inbox, [type |-> "conversation_created",
                              id |-> createH[k].result,
                              createdByDeviceId |-> createH[k].resultCreatedBy,
                              targetDeviceId |-> createH[k].resultTarget,
                              participantIds |-> {createH[k].creatorId, createH[k].peerId},
                              creatorId |-> createH[k].creatorId])
  /\ createH' = [createH EXCEPT ![k].pc = "done"]
  /\ UNCHANGED <<userSockets, sock, published, emitted, received, conversations,
                 convSeq, storeVars, clock, sendH, readH, friendships, currentDeviceId, registryVars, clientVars>>

\* the controller call has returned (or thrown): the request is over
CreateConversation_return(k) ==
  /\ createH[k].pc \in {"done", "failed"}
  /\ createH' = [createH EXCEPT ![k] = IdleCreate]
  /\ UNCHANGED <<gatewayVars, conversations, convSeq, storeVars, clock, sendH, readH,
                 friendships, currentDeviceId, registryVars, clientVars>>

\* a handleRedisConversation that notifies nobody but the creator
ConversationRecipients_creatorOnly(data) == data.participantIds \cap {data.creatorId}

\* the users handleRedisConversation notifies: every participant but the creator
ConversationRecipients(data) == data.participantIds \ {data.creatorId}

\* the conversation:new event: data.conversation
conversationData(data) ==
  [type |-> "conversation:new", id |-> data.id, conversationId |-> data.id,
   createdByDeviceId |-> data.createdByDeviceId, targetDeviceId |-> data.targetDeviceId]

\* ChatGateway.handleRedisConversation
HandleRedisConversation(i) ==
  /\ inbox[i] # <<>>
  /\ Head(inbox[i]).type = "conversation_created"
  /\ LET data == Head(inbox[i])
     IN received' = EmitTo(LocalSockets(i, ConversationRecipients(data)),
                           conversationData(data))
  /\ inbox' = [inbox EXCEPT ![i] = Tail(@)]
  /\ UNCHANGED <<userSockets, sock, published, emitted, conversations, convSeq,
                 storeVars, clock, sendH, readH, resolverVars, registryVars, clientVars>>

(***************************************************************************)
(* DevicesService and the endpoints that call it: the Key Registry.  A     *)
(* device id stands for the device's key pair.                             *)
(***************************************************************************)
\* DevicesService.getDevicePublicKeys: every row of the user, revoked or not
getDevicePublicKeys(table, userId) == {d.id : d \in {x \in table : x.userId = userId}}

\* the creation time of the next row: later than every row of the table
RECURSIVE MaxCreatedAt(_)
MaxCreatedAt(table) ==
  IF table = {} THEN 0
  ELSE LET x == CHOOSE y \in table : TRUE
           rest == MaxCreatedAt(table \ {x})
       IN IF x.createdAt > rest THEN x.createdAt ELSE rest
NextCreatedAt(table) == MaxCreatedAt(table) + 1

IsRevoked(table, deviceId) == \E d \in table : d.id = deviceId /\ d.revoked

\* POST /devices: registerDevice of a key pair that has no row yet
RegisterDevice(u, d) ==
  /\ DeviceUser(d) = u
  /\ ~\E x \in devices : x.id = d
  /\ devices' = devices \cup {[id |-> d, userId |-> u, revoked |-> FALSE,
                                createdAt |-> NextCreatedAt(devices)]}
  /\ UNCHANGED <<gatewayVars, conversations, convSeq, storeVars, clock, sendH, readH,
                 resolverVars, clientVars>>

\* DELETE /devices/:deviceId: revokeDevice sets revokedAt, for any caller
RevokeDevice(d) ==
  /\ \E x \in devices : x.id = d
  /\ devices' = {IF x.id = d THEN [x EXCEPT !.revoked = TRUE] ELSE x : x \in devices}
  /\ UNCHANGED <<gatewayVars, conversations, convSeq, storeVars, clock, sendH, readH,
                 resolverVars, clientVars>>

\* DELETE /users/devices/:deviceId: UsersController.deleteDevice and
\* DevicesService.deleteDevice.  The row is deleted unless it is the caller's
\* current device, belongs to somebody else, or a message row references it
\* (messages.sender_device_id is ON DELETE RESTRICT); the conversations it
\* created keep a null created_by_device_id (ON DELETE SET NULL).
DeleteDevice(u, d) ==
  /\ IF /\ currentDeviceId[u] # d
        /\ \E x \in devices : x.id = d /\ x.userId = u
        /\ ~\E m \in messages : m.senderDeviceId = d
     THEN /\ devices' = {x \in devices : x.id # d}
          /\ conversations' =
               {IF c.createdByDeviceId = d THEN [c EXCEPT !.createdByDeviceId = NoDevice]
                ELSE c : c \in conversations}
     ELSE UNCHANGED <<devices, conversations, socketService>>
  /\ UNCHANGED <<gatewayVars, convSeq, storeVars, clock, sendH, readH, resolverVars,
                 clientVars>>

(***************************************************************************)
(* The web client: the lock predicate of the chat view and of the          *)
(* conversation list.  The client's device id is a device id; the device   *)
(* ids of a conversation may be null.                                      *)
(***************************************************************************)
\* Chat.tsx isLocked, over the conversations state and the open conversation
isLocked(convs, active, dev) ==
  IF ~\E c \in convs : c.id = active THEN FALSE
  ELSE LET currentConversation == CHOOSE c \in convs : c.id = active
       IN IF /\ currentConversation.createdByDeviceId = NoDevice
             /\ currentConversation.targetDeviceId = NoDevice THEN FALSE
          ELSE IF currentConversation.createdByDeviceId = dev THEN FALSE
          ELSE IF currentConversation.targetDeviceId = dev THEN FALSE
          ELSE IF /\ currentConversation.createdByDeviceId # NoDevice
                  /\ currentConversation.targetDeviceId = NoDevice THEN FALSE
          ELSE TRUE

\* ConversationsList.tsx isConversationLocked
isConversationLocked(conversation, dev) ==
  IF conversation.createdByDeviceId = NoDevice /\ conversation.targetDeviceId = NoDevice
  THEN FALSE
  ELSE IF conversation.createdByDeviceId = dev THEN FALSE
  ELSE IF conversation.targetDeviceId = dev THEN FALSE
  ELSE IF conversation.createdByDeviceId # NoDevice /\ conversation.targetDeviceId = NoDevice
  THEN FALSE
  ELSE TRUE

LockLabel(b) == IF b THEN "locked" ELSE "open"

\* the chat area of client c renders the open conversation
RenderChat(c) ==
  /\ activeConversation[c] # 0
  /\ lockView' = [lockView EXCEPT ![c].chat =
       LockLabel(isLocked(clientConversations[c], activeConversation[c], device[c]))]
  /\ UNCHANGED <<serverVars, pageVars, composerVars, sharedKeys, viewVars, decryptVars, socketService>>

\* the conversation list of client c renders the entry of the open conversation
RenderList(c) ==
  /\ \E v \in clientConversations[c] :
       /\ v.id = activeConversation[c]
       /\ lockView' = [lockView EXCEPT ![c].list =
            LockLabel(isConversationLocked(v, device[c]))]
  /\ UNCHANGED <<serverVars, pageVars, composerVars, sharedKeys, viewVars, decryptVars, socketService>>

(***************************************************************************)
(* The web client: the message composer form and Chat.tsx                  *)
(* handleSendMessage.  An ECDH key is the pair of devices whose private    *)
(* and public key it is derived from.                                      *)
(***************************************************************************)
Plaintexts == {"hi", "yo"}

ActiveConv(c) == {v \in clientConversations[c] : v.id = activeConversation[c]}

\* a composer whose submit button ignores the lock
SubmitDisabled_ignoresLock(c) ==
  composer[c].loading \/ composer[c].messageText = ""

\* disabled={loading || !messageText.trim() || isLocked} of the submit button; a
\* form whose submit button is disabled is not submitted by Enter either
SubmitDisabled(c) ==
  \/ composer[c].loading
  \/ composer[c].messageText = ""
  \/ isLocked(clientConversations[c], activeConversation[c], device[c])

\* disabled={loading || isLocked} of the text input
InputDisabled(c) ==
  \/ composer[c].loading
  \/ isLocked(clientConversations[c], activeConversation[c], device[c])

\* handleSelectConversation: setActiveConversation, then loadMessages up to
\* its request
SelectConversation(c, id) ==
  /\ \E v \in clientConversations[c] : v.id = id
  /\ loadH[c].pc = "idle"
  /\ activeConversation' = [activeConversation EXCEPT ![c] = id]
  /\ loadH' = [loadH EXCEPT ![c] = [IdleLoad EXCEPT !.pc = "messages",
                                                     !.conversationId = id]]
  /\ composer' = [composer EXCEPT ![c].loading = TRUE]
  /\ UNCHANGED <<serverVars, device, clientConversations, lockView, requests,
                 sharedKeys, viewVars, decryptVars, socketService>>

\* onChange of the text input
TypeMessage(c, x) ==
  /\ activeConversation[c] # 0
  /\ ~InputDisabled(c)
  /\ composer' = [composer EXCEPT ![c].messageText = x]
  /\ UNCHANGED <<serverVars, pageVars, lockView, requests, sharedKeys, viewVars,
                 decryptVars, socketService>>

\* the user submits the form; handleSendMessage runs up to its first await
SubmitForm(c) ==
  /\ activeConversation[c] # 0
  /\ composer[c].pc = "idle"
  /\ IF SubmitDisabled(c)
     THEN composer' = [composer EXCEPT ![c].blocked = TRUE]
     ELSE \E v \in ActiveConv(c) :
            composer' = [composer EXCEPT ![c] =
              [@ EXCEPT !.pc = "derive", !.loading = TRUE, !.blocked = FALSE,
                        !.conversationId = v.id,
                        !.friendId = CHOOSE u \in Users :
                                       (v.participants \ {SocketUser(c)}) \subseteq {u},
                        !.targetDeviceId = IF v.createdByUserId = SocketUser(c)
                                           THEN v.targetDeviceId
                                           ELSE v.createdByDeviceId]]
  /\ UNCHANGED <<serverVars, pageVars, lockView, requests, sharedKeys, viewVars,
                 decryptVars, socketService>>

\* the newest device row of a user: userDevices[0] of getUserKeys
NewestDevice(table, userId) ==
  {d \in table : d.userId = userId /\ \A e \in table : e.userId = userId
                                                       => e.createdAt <= d.createdAt}

\* a derivation that always takes the newest device of the other user
DerivedKey_newestOnly(c, otherUserId, otherDeviceId) ==
  {{device[c], d.id} : d \in NewestDevice(devices, otherUserId)}

\* the key getOrDeriveSharedKey derives from what getUserKeys returned, as a
\* set: empty when it returns null
DerivedKey(c, otherUserId, otherDeviceId) ==
  IF otherDeviceId # NoDevice
  THEN {{device[c], d.id} : d \in {x \in devices : x.userId = otherUserId
                                                    /\ x.id = otherDeviceId}}
  ELSE {{device[c], d.id} : d \in NewestDevice(devices, otherUserId)}

CachedKey(c, otherUserId, otherDeviceId) ==
  {k.key : k \in {x \in sharedKeys[c] : x.userId = otherUserId
                                        /\ x.deviceId = otherDeviceId}}

\* await getOrDeriveSharedKey; ok tells whether the getUserKeys request succeeds
HandleSendMessage_derive(c, ok) ==
  /\ composer[c].pc = "derive"
  /\ LET u == composer[c].friendId
         d == composer[c].targetDeviceId
         cached == CachedKey(c, u, d)
         derived == IF ok THEN DerivedKey(c, u, d) ELSE {}
     IN IF cached # {}
        THEN /\ composer' = [composer EXCEPT ![c].pc = "send",
                                             ![c].key = CHOOSE k \in cached : TRUE]
             /\ UNCHANGED <<requests, sharedKeys, socketService>>
        ELSE /\ requests' = [requests EXCEPT ![c] = @ \cup
                  {[call |-> "getUserKeys", conversationId |-> composer[c].conversationId,
                    senderDeviceId |-> device[c], payload |-> SomePayload]}]
             /\ IF derived # {}
                THEN /\ sharedKeys' = [sharedKeys EXCEPT ![c] = @ \cup
                          {[userId |-> u, deviceId |-> d,
                            key |-> CHOOSE k \in derived : TRUE]}]
                     /\ composer' = [composer EXCEPT ![c].pc = "send",
                                        ![c].key = CHOOSE k \in derived : TRUE]
                ELSE \* no key: the error modal; finally setLoading(false)
                     /\ composer' = [composer EXCEPT ![c].pc = "idle",
                                                     ![c].loading = FALSE]
                     /\ UNCHANGED sharedKeys
  /\ UNCHANGED <<serverVars, pageVars, lockView, viewVars, decryptVars, socketService>>

\* encryptMessage and socketService.sendMessage: message:send is emitted
HandleSendMessage_send(c, n) ==
  /\ composer[c].pc = "send"
  /\ requests' = [requests EXCEPT ![c] = @ \cup
       {[call |-> "message:send", conversationId |-> composer[c].conversationId,
         senderDeviceId |-> device[c],
         payload |-> Encrypt(composer[c].messageText, composer[c].key, n)]}]
  /\ composer' = [composer EXCEPT ![c].pc = "ack"]
  /\ UNCHANGED <<serverVars, pageVars, lockView, sharedKeys, viewVars, decryptVars, socketService>>

\* the message:send of client c that no handleMessage invocation has taken
PendingSend(c) ==
  IF composer[c].pc = "ack" /\ \A h \in DOMAIN sendH :
                                 sendH[h].pc # "idle" => sendH[h].client # c
  THEN {r \in requests[c] : r.call = "message:send"}
  ELSE {}

\* the acknowledgement of the gateway resolves or rejects the promise
HandleSendMessage_ack(c) ==
  /\ composer[c].pc = "ack"
  /\ \E h \in DOMAIN sendH :
       /\ sendH[h].client = c
       /\ sendH[h].pc = "done"
       /\ composer' = [composer EXCEPT ![c].pc = "idle", ![c].loading = FALSE,
                          ![c].messageText = IF sendH[h].result = "success"
                                             THEN "" ELSE @]
  /\ UNCHANGED <<serverVars, pageVars, lockView, requests, sharedKeys, viewVars,
                 decryptVars, socketService>>

(***************************************************************************)
(* The web client: the onMessage listener, Chat.tsx decryptMessage with    *)
(* its retryDecryption timers, and the effect that retries the failed      *)
(* messages of the open conversation.  A client runs one decryptMessage    *)
(* call at a time.                                                         *)
(***************************************************************************)
NoMessage == [id |-> 0, conversationId |-> 0, senderUserId |-> "",
              senderDeviceId |-> NoDevice, ciphertext |-> SomePayload.ciphertext,
              nonce |-> SomePayload.nonce, decryptedText |-> ""]

\* message is the argument the decryptMessage call in flight was given
IdleDecrypt == [pc |-> "idle", messageId |-> 0, attempt |-> 0, queue |-> <<>>,
                message |-> NoMessage]

Decrypting == ""
NoRecipient == "[No recipient]"
KeyNotAvailable == "[Key not available]"
Redacted == "[REDACTED]"

\* CryptoService.decryptMessage: the plaintext, or nothing when AES-GCM throws
decryptMessage(ciphertext, nonce, key) ==
  IF ciphertext.key = key /\ ciphertext.iv = nonce THEN {ciphertext.text} ELSE {}

\* the keys getOrDeriveSharedKey returns (none when it returns null) and the
\* cache it leaves; ok tells whether its getUserKeys request succeeds
getOrDeriveSharedKey(c, otherUserId, otherDeviceId, ok) ==
  IF CachedKey(c, otherUserId, otherDeviceId) # {}
  THEN CachedKey(c, otherUserId, otherDeviceId)
  ELSE IF ok THEN DerivedKey(c, otherUserId, otherDeviceId) ELSE {}

setSharedKeys(c, otherUserId, otherDeviceId, keys) ==
  [sharedKeys EXCEPT ![c] = @ \cup
     {[userId |-> otherUserId, deviceId |-> otherDeviceId, key |-> k] : k \in keys}]

\* the rows getUserKeys returns, ordered by createdAt descending
RECURSIVE NewestFirst(_)
NewestFirst(rows) ==
  IF rows = {} THEN <<>>
  ELSE LET x == CHOOSE y \in rows : \A z \in rows : z.createdAt <= y.createdAt
       IN <<x.id>> \o NewestFirst(rows \ {x})

ClientMsg(c, id) == CHOOSE m \in clientMessages[c] : m.id = id

\* the message argument of the decryptMessage call in flight: the closure
\* keeps it when the store no longer holds the message
ClosureMessage(c) == decryptH[c].message

ClientConv(c, id) == {v \in clientConversations[c] : v.id = id}

\* keyUserId of decryptMessage; "" when no recipient is found
KeyUserId(c, m) ==
  IF m.senderUserId = SocketUser(c)
  THEN IF \E v \in ClientConv(c, m.conversationId) :
            v.participants \ {SocketUser(c)} # {}
       THEN CHOOSE u \in Users : \E v \in ClientConv(c, m.conversationId) :
                                   u \in v.participants \ {SocketUser(c)}
       ELSE ""
  ELSE m.senderUserId

\* otherDeviceId of decryptMessage
OtherDeviceId(c, m) ==
  IF m.senderUserId = SocketUser(c)
  THEN IF ClientConv(c, m.conversationId) = {} THEN NoDevice
       ELSE LET v == CHOOSE w \in ClientConv(c, m.conversationId) : TRUE
            IN IF v.createdByDeviceId = device[c] THEN v.targetDeviceId
               ELSE v.createdByDeviceId
  ELSE m.senderDeviceId

updateDecryptedMessage(c, id, text) ==
  [clientMessages EXCEPT ![c] =
     {IF m.id = id THEN [m EXCEPT !.decryptedText = text] ELSE m : m \in @}]

\* hasAccess of the onMessage listener
hasAccess(c, id) ==
  \E v \in ClientConv(c, id) :
    \/ v.createdByDeviceId = device[c]
    \/ v.targetDeviceId = device[c]
    \/ (v.createdByDeviceId = NoDevice /\ v.targetDeviceId = NoDevice)

MarkReadCall(m) ==
  [call |-> "message:read", conversationId |-> m.conversationId,
   senderDeviceId |-> m.senderDeviceId,
   payload |-> [ciphertext |-> m.ciphertext, nonce |-> m.nonce]]

\* decryptMessage up to its first await
DecryptMessage_start(c, m) ==
  IF KeyUserId(c, m) = ""
  THEN [IdleDecrypt EXCEPT !.messageId = m.id]
  ELSE [IdleDecrypt EXCEPT !.pc = "userKey", !.messageId = m.id,
                           !.message = [m EXCEPT !.decryptedText = Decrypting]]

\* the listener of message:new takes the next event of the connection:
\* addMessage, markRead when the conversation is open, decryptMessage
OnMessage(c) ==
  /\ seen[c] < Len(received[c])
  /\ decryptH[c].pc = "idle"
  /\ LET ev == received[c][seen[c] + 1]
     IN /\ ev.type = "message:new"
        /\ LET m == [id |-> ev.id, conversationId |-> ev.conversationId,
                      senderUserId |-> ev.senderUserId,
                      senderDeviceId |-> ev.senderDeviceId,
                      ciphertext |-> ev.ciphertext, nonce |-> ev.nonce,
                      decryptedText |-> Decrypting]
               added == IF \E x \in clientMessages[c] : x.id = m.id
                        THEN clientMessages[c] ELSE clientMessages[c] \cup {m}
           IN /\ clientMessages' = [clientMessages EXCEPT ![c] =
                    IF KeyUserId(c, m) = ""
                    THEN {IF x.id = m.id THEN [x EXCEPT !.decryptedText = NoRecipient]
                          ELSE x : x \in added}
                    ELSE added]
              /\ requests' = [requests EXCEPT ![c] =
                    IF /\ m.conversationId = activeConversation[c]
                       /\ m.senderUserId # SocketUser(c)
                       /\ hasAccess(c, m.conversationId)
                    THEN @ \cup {MarkReadCall(m)} ELSE @]
              /\ decryptH' = [decryptH EXCEPT ![c] = DecryptMessage_start(c, m)]
  /\ seen' = [seen EXCEPT ![c] = @ + 1]
  /\ UNCHANGED <<serverVars, pageVars, lockView, composer, sharedKeys, keysApi, socketService>>

\* an attempt that goes on to the next candidate after a success
TryKey_keepsGoing(c, deviceId, ok, onFailure) ==
  LET m == ClosureMessage(c)
      keys == getOrDeriveSharedKey(c, KeyUserId(c, m), deviceId, ok)
      texts == UNION {decryptMessage(m.ciphertext, m.nonce, k) : k \in keys}
  IN /\ sharedKeys' = setSharedKeys(c, KeyUserId(c, m), deviceId, keys)
     /\ decryptH' = [decryptH EXCEPT ![c] = onFailure]
     /\ IF texts # {}
        THEN clientMessages' = updateDecryptedMessage(c, m.id, CHOOSE x \in texts : TRUE)
        ELSE UNCHANGED clientMessages

\* one attempt with the key of (keyUserId, deviceId): the new decryptH record
\* is onSuccess when the key decrypts the message and onFailure otherwise
TryKey(c, deviceId, ok, onFailure) ==
  LET m == ClosureMessage(c)
      keys == getOrDeriveSharedKey(c, KeyUserId(c, m), deviceId, ok)
      texts == UNION {decryptMessage(m.ciphertext, m.nonce, k) : k \in keys}
  IN /\ sharedKeys' = setSharedKeys(c, KeyUserId(c, m), deviceId, keys)
     /\ IF texts # {}
        THEN /\ clientMessages' = updateDecryptedMessage(c, m.id,
                                     CHOOSE x \in texts : TRUE)
             /\ decryptH' = [decryptH EXCEPT ![c] = [IdleDecrypt EXCEPT !.messageId = m.id]]
        ELSE /\ UNCHANGED clientMessages
             /\ decryptH' = [decryptH EXCEPT ![c] = onFailure]

\* "First, try simple user key": the key with the newest device of the user
DecryptMessage_userKey(c, ok) ==
  /\ decryptH[c].pc = "userKey"
  /\ TryKey(c, NoDevice, ok,
            [decryptH[c] EXCEPT !.pc =
               IF OtherDeviceId(c, ClosureMessage(c)) # NoDevice
               THEN "deviceKey" ELSE "allDevices"])
  /\ UNCHANGED <<serverVars, pageVars, lockView, composerVars, seen, keysApi, socketService>>

\* "try device-specific key"
DecryptMessage_deviceKey(c, ok) ==
  /\ decryptH[c].pc = "deviceKey"
  /\ TryKey(c, OtherDeviceId(c, ClosureMessage(c)), ok,
            [decryptH[c] EXCEPT !.pc = "allDevices"])
  /\ UNCHANGED <<serverVars, pageVars, lockView, composerVars, seen, keysApi, socketService>>

\* "Try all available device keys": await devicesApi.getUserKeys; when it
\* throws, the loop is skipped
DecryptMessage_allDevices(c, ok) ==
  /\ decryptH[c].pc = "allDevices"
  /\ LET m == ClosureMessage(c)
     IN decryptH' = [decryptH EXCEPT ![c].pc = "tryDevice",
                       ![c].queue = IF ok THEN NewestFirst({d \in devices :
                                                  d.userId = KeyUserId(c, m)})
                                    ELSE <<>>]
  /\ UNCHANGED <<serverVars, pageVars, lockView, composerVars, sharedKeys, viewVars,
                 keysApi, socketService>>

\* one round of the loop over the devices; after the last one the message is
\* marked '[Key not available]' and retryDecryption(1, 2000) sets its timer
DecryptMessage_tryDevice(c, ok) ==
  /\ decryptH[c].pc = "tryDevice"
  /\ IF decryptH[c].queue = <<>>
     THEN /\ clientMessages' = updateDecryptedMessage(c, decryptH[c].messageId,
                                                       KeyNotAvailable)
          /\ decryptH' = [decryptH EXCEPT ![c].pc = "timer", ![c].attempt = 1]
          /\ UNCHANGED sharedKeys
     ELSE TryKey(c, Head(decryptH[c].queue), ok,
                 [decryptH[c] EXCEPT !.queue = Tail(@)])
  /\ UNCHANGED <<serverVars, pageVars, lockView, composerVars, seen, keysApi, socketService>>

\* the timer of retryDecryption(attempt, delay) fires
RetryDecryption_timer(c) ==
  /\ decryptH[c].pc = "timer"
  /\ LET m == ClosureMessage(c)
         currentMsg == {x \in clientMessages[c] : x.id = m.id}
     IN decryptH' = [decryptH EXCEPT ![c].pc =
          IF \A x \in currentMsg : x.decryptedText # KeyNotAvailable THEN "idle"
          ELSE IF OtherDeviceId(c, m) # NoDevice THEN "retryDeviceKey"
          ELSE "retryAllDevices"]
  /\ UNCHANGED <<serverVars, pageVars, lockView, composerVars, sharedKeys, viewVars,
                 keysApi, socketService>>

\* "Try device-specific key again"
RetryDecryption_deviceKey(c, ok) ==
  /\ decryptH[c].pc = "retryDeviceKey"
  /\ TryKey(c, OtherDeviceId(c, ClosureMessage(c)), ok,
            [decryptH[c] EXCEPT !.pc = "retryAllDevices"])
  /\ UNCHANGED <<serverVars, pageVars, lockView, composerVars, seen, keysApi, socketService>>

\* "Try all devices again": await devicesApi.getUserKeys; when it throws, the
\* catch ends this retryDecryption and no further one is scheduled
RetryDecryption_allDevices(c, ok) ==
  /\ decryptH[c].pc = "retryAllDevices"
  /\ LET m == ClosureMessage(c)
     IN decryptH' = [decryptH EXCEPT ![c] =
          IF ok THEN [@ EXCEPT !.pc = "retryTryDevice",
                               !.queue = NewestFirst({d \in devices :
                                                       d.userId = KeyUserId(c, m)})]
          ELSE [@ EXCEPT !.pc = "idle"]]
  /\ UNCHANGED <<serverVars, pageVars, lockView, composerVars, sharedKeys, viewVars,
                 keysApi, socketService>>

\* one round of the loop of the retry; after the last one retryDecryption(2,
\* 3000) is scheduled if this was the first retry.  A success marks the
\* message read when its conversation is open.
RetryDecryption_tryDevice(c, ok) ==
  /\ decryptH[c].pc = "retryTryDevice"
  /\ LET m == ClosureMessage(c)
     IN IF decryptH[c].queue = <<>>
        THEN /\ decryptH' = [decryptH EXCEPT ![c].pc =
                               IF decryptH[c].attempt = 1 THEN "timer" ELSE "idle",
                             ![c].attempt = IF @ = 1 THEN 2 ELSE @]
             /\ UNCHANGED <<sharedKeys, clientMessages, requests, socketService>>
        ELSE /\ TryKey(c, Head(decryptH[c].queue), ok,
                       [decryptH[c] EXCEPT !.queue = Tail(@)])
             /\ requests' = [requests EXCEPT ![c] =
                   IF /\ decryptH'[c].pc = "idle"
                      /\ m.conversationId = activeConversation[c]
                      /\ m.senderUserId # SocketUser(c)
                   THEN @ \cup {MarkReadCall(m)} ELSE @]
  /\ UNCHANGED <<serverVars, pageVars, lockView, composer, seen, keysApi, socketService>>

\* the effect on [activeConversation, messagesByConversation,
\* conversationFriends]: decryptMessage for a failed message of the open
\* conversation
RetryFailedDecryptions(c) ==
  /\ decryptH[c].pc \in {"idle", "timer"}
  /\ \E m \in clientMessages[c] :
       /\ m.conversationId = activeConversation[c]
       /\ m.decryptedText = KeyNotAvailable
       /\ decryptH' = [decryptH EXCEPT ![c] = DecryptMessage_start(c, m)]
  /\ UNCHANGED <<serverVars, pageVars, lockView, composerVars, sharedKeys, viewVars,
                 keysApi, socketService>>

\* the ids of a set of rows in ascending order
RECURSIVE Ascending(_)
Ascending(ids) ==
  IF ids = {} THEN <<>>
  ELSE LET x == CHOOSE y \in ids : \A z \in ids : y <= z
       IN <<x>> \o Ascending(ids \ {x})

\* GET /messages/conversation/:id: the rows, or none for a non-participant
getMessages(u, conversationId) ==
  IF isParticipant(conversationId, u)
  THEN {m \in messages : m.conversationId = conversationId}
  ELSE {}

\* the reducer setMessages: the rows of the response replace what the store
\* holds for the conversation
setMessages(c, conversationId, rows) ==
  [clientMessages EXCEPT ![c] =
     {x \in @ : x.conversationId # conversationId}
     \cup {[id |-> m.id, conversationId |-> m.conversationId,
            senderUserId |-> m.senderUserId, senderDeviceId |-> m.senderDeviceId,
            ciphertext |-> m.ciphertext, nonce |-> m.nonce,
            decryptedText |-> Decrypting] : m \in rows}]

\* updateDecryptedMessage(message.id, '[REDACTED]') for each of the rows
redactMessages(store, conversationId) ==
  {IF x.conversationId = conversationId THEN [x EXCEPT !.decryptedText = Redacted]
   ELSE x : x \in store}

\* loadMessages after its request: setMessages, markRead of the unread rows
\* and '[REDACTED]' or the decryption of each row in turn
LoadMessages_setMessages(c, ok) ==
  /\ loadH[c].pc = "messages"
  /\ LET id == loadH[c].conversationId
         rows == getMessages(SocketUser(c), id)
     IN IF ~ok
        THEN /\ loadH' = [loadH EXCEPT ![c] = IdleLoad]
             /\ composer' = [composer EXCEPT ![c].loading = FALSE]
             /\ UNCHANGED <<clientMessages, requests, socketService>>
        ELSE /\ clientMessages' =
                  IF hasAccess(c, id) THEN setMessages(c, id, rows)
                  ELSE [clientMessages EXCEPT ![c] =
                          redactMessages(setMessages(c, id, rows)[c], id)]
             /\ requests' = [requests EXCEPT ![c] =
                   IF hasAccess(c, id)
                   THEN @ \cup {MarkReadCall(m) : m \in
                          {x \in rows : x.senderUserId # SocketUser(c)
                                        /\ x.readAt = Null}}
                   ELSE @]
             /\ IF hasAccess(c, id)
                THEN /\ loadH' = [loadH EXCEPT ![c].pc = "decrypt",
                                     ![c].queue = Ascending({m.id : m \in rows})]
                     /\ UNCHANGED composer
                ELSE /\ loadH' = [loadH EXCEPT ![c] = IdleLoad]
                     /\ composer' = [composer EXCEPT ![c].loading = FALSE]
  /\ UNCHANGED <<serverVars, device, clientConversations, activeConversation,
                 lockView, sharedKeys, seen, decryptVars, socketService>>

\* the loop "await decryptMessage(message)" of loadMessages: the next call
\* starts when the one before has returned; finally setLoading(false)
LoadMessages_decrypt(c) ==
  /\ loadH[c].pc = "decrypt"
  /\ decryptH[c].pc \in {"idle", "timer"}
  /\ IF loadH[c].queue = <<>>
     THEN /\ loadH' = [loadH EXCEPT ![c] = IdleLoad]
          /\ composer' = [composer EXCEPT ![c].loading = FALSE]
          /\ UNCHANGED <<clientMessages, decryptH, socketService>>
     ELSE /\ loadH' = [loadH EXCEPT ![c].queue = Tail(@)]
          /\ IF \E m \in clientMessages[c] : m.id = Head(loadH[c].queue)
             THEN LET m == ClientMsg(c, Head(loadH[c].queue))
                  IN /\ decryptH' = [decryptH EXCEPT ![c] = DecryptMessage_start(c, m)]
                     /\ clientMessages' =
                          IF KeyUserId(c, m) = ""
                          THEN updateDecryptedMessage(c, m.id, NoRecipient)
                          ELSE clientMessages
             ELSE UNCHANGED <<clientMessages, decryptH, socketService>>
          /\ UNCHANGED composer
  /\ UNCHANGED <<serverVars, device, clientConversations, activeConversation,
                 lockView, requests, sharedKeys, seen, keysApi, socketService>>

\* the listener of conversation:new takes the next event of the connection:
\* loadConversations up to its request
OnNewConversation(c) ==
  /\ seen[c] < Len(received[c])
  /\ received[c][seen[c] + 1].type = "conversation:new"
  /\ loadH[c].pc = "idle"
  /\ seen' = [seen EXCEPT ![c] = @ + 1]
  /\ loadH' = [loadH EXCEPT ![c] = [IdleLoad EXCEPT !.pc = "conversations"]]
  /\ UNCHANGED <<serverVars, device, clientConversations, activeConversation,
                 lockView, composerVars, sharedKeys, clientMessages, decryptVars, socketService>>

\* the listener of messages:deleted: setMessages(data.conversationId, [])
OnMessagesDeleted(c) ==
  /\ seen[c] < Len(received[c])
  /\ received[c][seen[c] + 1].type = "messages:deleted"
  /\ clientMessages' = setMessages(c, received[c][seen[c] + 1].conversationId, {})
  /\ seen' = [seen EXCEPT ![c] = @ + 1]
  /\ UNCHANGED <<serverVars, pageVars, lockView, composerVars, sharedKeys, decryptVars, socketService>>

\* the events of the connection the page keeps nothing of in this model
\* (presence, receipts)
OnOtherEvent(c) ==
  /\ seen[c] < Len(received[c])
  /\ received[c][seen[c] + 1].type
       \notin {"message:new", "conversation:new", "messages:deleted"}
  /\ seen' = [seen EXCEPT ![c] = @ + 1]
  /\ UNCHANGED <<serverVars, pageVars, lockView, composerVars, sharedKeys,
                 clientMessages, decryptVars, socketService>>

\* GET /conversations: findByUserId
findByUserId(u) == {v \in conversations : u \in v.participants}

\* loadConversations after its request: setConversations, then the messages
\* of each conversation in turn
LoadConversations_setConversations(c, ok) ==
  /\ loadH[c].pc = "conversations"
  /\ IF ok
     THEN /\ clientConversations' = [clientConversations EXCEPT ![c] =
                                       findByUserId(SocketUser(c))]
          /\ loadH' = [loadH EXCEPT ![c].pc = "conversationMessages",
                          ![c].queue = Ascending({v.id : v \in findByUserId(SocketUser(c))})]
     ELSE /\ loadH' = [loadH EXCEPT ![c] = IdleLoad]
          /\ UNCHANGED clientConversations
  /\ UNCHANGED <<serverVars, device, activeConversation, lockView, composerVars,
                 sharedKeys, viewVars, decryptVars, socketService>>

\* one round of the loop of loadConversations: setMessages of a conversation
LoadConversations_setMessages(c, ok) ==
  /\ loadH[c].pc = "conversationMessages"
  /\ IF loadH[c].queue = <<>>
     THEN /\ loadH' = [loadH EXCEPT ![c] = IdleLoad]
          /\ UNCHANGED clientMessages
     ELSE /\ loadH' = [loadH EXCEPT ![c].queue = Tail(@)]
          /\ clientMessages' =
               IF ok
               THEN setMessages(c, Head(loadH[c].queue),
                                getMessages(SocketUser(c), Head(loadH[c].queue)))
               ELSE clientMessages
  /\ UNCHANGED <<serverVars, device, clientConversations, activeConversation,
                 lockView, composerVars, sharedKeys, seen, decryptVars, socketService>>

\* the socket.io client opens a new connection after the old one was closed
Reconnect(c) ==
  /\ sock[c] = "closed"
  /\ sock' = [sock EXCEPT ![c] = "new"]
  /\ UNCHANGED <<userSockets, published, emitted, inbox, received, conversations,
                 convSeq, storeVars, clock, sendH, readH, resolverVars, registryVars,
                 clientVars>>

\* the API becomes reachable for the client again
KeysApiRecovers(c) ==
  /\ ~keysApi[c]
  /\ keysApi' = [keysApi EXCEPT ![c] = TRUE]
  /\ UNCHANGED <<serverVars, pageVars, lockView, composerVars, sharedKeys, viewVars,
                 decryptH, socketService>>

\* a request of the client to the API fails from now on
KeysApiFails(c) ==
  /\ keysApi[c]
  /\ keysApi' = [keysApi EXCEPT ![c] = FALSE]
  /\ UNCHANGED <<serverVars, pageVars, lockView, composerVars, sharedKeys, viewVars,
                 decryptH, socketService>>

(***************************************************************************)
(* The clock behind new Date().                                            *)
(***************************************************************************)
Tick ==
  /\ clock < MaxClock
  /\ clock' = clock + 1
  /\ UNCHANGED <<gatewayVars, conversations, convSeq, storeVars, sendH, readH,
                 resolverVars, registryVars, clientVars>>

(***************************************************************************)
(* Initial states.                                                         *)
(***************************************************************************)
NoSockets == [i \in Instances |-> [u \in {} |-> {}]]

\* every connection of the population has authenticated
AllSockets ==
  [i \in Instances |->
     [u \in {SocketUser(s) : s \in {x \in Sockets : SocketInstance(x) = i}} |->
        {s \in Sockets : SocketInstance(s) = i /\ SocketUser(s) = u}]]

\* u1 (device a1) and u2 (device b1) share conversation 1; conversation 2 is
\* u1's conversation with u3
TwoConversations ==
  {[id |-> 1, createdByUserId |-> "u1", createdByDeviceId |-> "a1",
    targetDeviceId |-> "b1", participants |-> {"u1", "u2"}],
   [id |-> 2, createdByUserId |-> "u1", createdByDeviceId |-> "a1",
    targetDeviceId |-> NoDevice, participants |-> {"u1", "u3"}]}

\* every device of the population is registered and active
\* registered in the order a1, b1, a2
DeviceCreatedAt(d) == IF d = "a1" THEN 1 ELSE IF d = "b1" THEN 2 ELSE 3
AllDevices == {[id |-> d, userId |-> DeviceUser(d), revoked |-> FALSE,
                createdAt |-> DeviceCreatedAt(d)] : d \in Devices}

\* ------------------------------------------------------------------
\* SocketService, the client's singleton around its socket.io socket
\* (src/unnamed/part_008, class SocketService)
\* ------------------------------------------------------------------
\* the functions the page passes to the on... methods
Callbacks == {"cb1", "cb2"}
\* the callback arrays of the service
CallbackLists == {"messageCallbacks", "messageReadCallbacks", "presenceCallbacks",
                  "friendRequestCallbacks", "friendAcceptedCallbacks",
                  "messagesDeletedCallbacks", "newConversationCallbacks"}
\* the events setupSocketListeners listens to
ServerEvents == {"message:new", "message:read", "user:online", "user:offline",
                 "users:online", "friend:request", "friend:accepted",
                 "messages:deleted", "conversation:new"}
\* the array whose callbacks the handler of an event calls
EventCallbacks(e) ==
  CASE e = "message:new" -> "messageCallbacks"
    [] e = "message:read" -> "messageReadCallbacks"
    [] e \in {"user:online", "user:offline", "users:online"} -> "presenceCallbacks"
    [] e = "friend:request" -> "friendRequestCallbacks"
    [] e = "friend:accepted" -> "friendAcceptedCallbacks"
    [] e = "messages:deleted" -> "messagesDeletedCallbacks"
    [] e = "conversation:new" -> "newConversationCallbacks"

\* the service as constructed: no socket, empty arrays, listenersSetup false.
\* socket is "null", or the socket's state "disconnected" / "connected";
\* listeners counts the handler sets attached to the current socket with on();
\* unsubscribes holds the unsubscribe closures the on... methods have returned;
\* event and invoked record the callback calls made by the event just dispatched;
\* onlineRequests counts the request:online-users emissions;
\* calledWhileConnected tells whether connect() was called on the current socket
\* while it was connected.
NoService == [socket |-> "null", listenersSetup |-> FALSE, listeners |-> 0,
              callbacks |-> [l \in CallbackLists |-> <<>>],
              unsubscribes |-> {}, event |-> "none", invoked |-> <<>>,
              onlineRequests |-> 0, calledWhileConnected |-> FALSE]
\* a step other than the dispatch of an event calls no callback
Quiet(svc) == [svc EXCEPT !.event = "none", !.invoked = <<>>]

\* setupSocketListeners: nothing without a socket or when the flag is set;
\* otherwise sets the flag and attaches one handler per event with socket.on
setupSocketListeners(svc) ==
  IF svc.socket = "null" THEN svc
  ELSE IF svc.listenersSetup THEN svc
  ELSE [svc EXCEPT !.listenersSetup = TRUE, !.listeners = @ + 1]

\* connect(): a connected socket only gets setupSocketListeners; a socket that
\* is not connected is asked to reconnect; without a socket, io() creates one,
\* not yet connected and without listeners, and setupSocketListeners runs
Connect_reattaches ==
  /\ socketService' =
       IF socketService.socket = "connected"
       THEN setupSocketListeners([Quiet(socketService) EXCEPT
                                    !.calledWhileConnected = TRUE])
       ELSE IF socketService.socket = "disconnected"
       THEN [Quiet(socketService) EXCEPT !.listenersSetup = TRUE,
                                         !.listeners = @ + 1]
       ELSE setupSocketListeners([Quiet(socketService) EXCEPT
                                    !.socket = "disconnected", !.listeners = 0,
                                    !.calledWhileConnected = FALSE])
  /\ UNCHANGED <<serverVars, pageVars, lockView, composerVars, sharedKeys,
                 viewVars, decryptVars>>
Connect ==
  /\ socketService' =
       IF socketService.socket = "connected"
       THEN setupSocketListeners([Quiet(socketService) EXCEPT
                                    !.calledWhileConnected = TRUE])
       ELSE IF socketService.socket = "disconnected"
       THEN Quiet(socketService)
       ELSE setupSocketListeners([Quiet(socketService) EXCEPT
                                    !.socket = "disconnected", !.listeners = 0,
                                    !.calledWhileConnected = FALSE])
  /\ UNCHANGED <<serverVars, pageVars, lockView, composerVars, sharedKeys,
                 viewVars, decryptVars>>

\* the transport of the socket connects (after io(), socket.connect() or a drop)
SocketConnects ==
  /\ socketService.socket = "disconnected"
  /\ socketService' = [Quiet(socketService) EXCEPT !.socket = "connected"]
  /\ UNCHANGED <<serverVars, pageVars, lockView, composerVars, sharedKeys,
                 viewVars, decryptVars>>

\* the transport of the socket is lost; the socket and its listeners stay
SocketDrops ==
  /\ socketService.socket = "connected"
  /\ socketService' = [Quiet(socketService) EXCEPT !.socket = "disconnected"]
  /\ UNCHANGED <<serverVars, pageVars, lockView, composerVars, sharedKeys,
                 viewVars, decryptVars>>

\* disconnect(): with a socket, removeAllListeners, disconnect, socket = null and
\* listenersSetup = false; then six of the seven arrays are emptied
\* (newConversationCallbacks is not among them)
Disconnect ==
  /\ socketService' =
       [Quiet(socketService) EXCEPT
          !.socket = "null",
          !.listeners = 0,
          !.calledWhileConnected = FALSE,
          !.listenersSetup = IF socketService.socket # "null" THEN FALSE ELSE @,
          !.callbacks = [l \in CallbackLists |->
                           IF l = "newConversationCallbacks" THEN @[l] ELSE <<>>]]
  /\ UNCHANGED <<serverVars, pageVars, lockView, composerVars, sharedKeys,
                 viewVars, decryptVars>>

\* onMessage, onMessageRead, onPresenceChange, onFriendRequest, onFriendAccepted,
\* onMessagesDeleted, onNewConversation: push the callback and return the
\* unsubscribe closure; onPresenceChange also calls requestOnlineUsers, which
\* emits request:online-users when the socket is connected
Subscribe(l, cb) ==
  /\ socketService' =
       [Quiet(socketService) EXCEPT
          !.callbacks[l] = Append(@, cb),
          !.unsubscribes = @ \cup {<<l, cb>>},
          !.onlineRequests = IF l = "presenceCallbacks"
                                /\ socketService.socket = "connected"
                             THEN @ + 1 ELSE @]
  /\ UNCHANGED <<serverVars, pageVars, lockView, composerVars, sharedKeys,
                 viewVars, decryptVars>>

\* checkAndResetListeners: when six of the seven arrays are empty
\* (newConversationCallbacks is not looked at) and the flag is set, the flag is
\* reset; the handlers attached to the socket stay attached
checkAndResetListeners(svc) ==
  LET hasCallbacks == \E l \in CallbackLists \ {"newConversationCallbacks"} :
                        Len(svc.callbacks[l]) > 0
  IN IF ~hasCallbacks /\ svc.listenersSetup
     THEN [svc EXCEPT !.listenersSetup = FALSE]
     ELSE svc

\* the closure an on... method returned: filters the callback out of its array,
\* then checkAndResetListeners
Unsubscribe(l, cb) ==
  /\ <<l, cb>> \in socketService.unsubscribes
  /\ socketService' =
       checkAndResetListeners(
         [Quiet(socketService) EXCEPT
            !.callbacks[l] = SelectSeq(@, LAMBDA x : x # cb)])
  /\ UNCHANGED <<serverVars, pageVars, lockView, composerVars, sharedKeys,
                 viewVars, decryptVars>>

\* what one attached handler of event e does with its payload: forEach over the
\* array of the event; users:online calls every callback once per user id
RECURSIVE HandlerCalls(_, _, _)
HandlerCalls(svc, e, data) ==
  LET cbs == svc.callbacks[EventCallbacks(e)]
      calls(d) == [i \in 1..Len(cbs) |-> [callback |-> cbs[i], data |-> d]]
  IN IF e = "users:online"
     THEN IF data = <<>> THEN <<>>
          ELSE calls(Head(data)) \o HandlerCalls(svc, e, Tail(data))
     ELSE calls(data)

\* the socket emits e to the handlers attached with on(), in the order attached
RECURSIVE EmitEvent(_, _, _, _)
EmitEvent(svc, e, data, n) ==
  IF n = 0 THEN <<>>
  ELSE HandlerCalls(svc, e, data) \o EmitEvent(svc, e, data, n - 1)

\* an event of the server arrives on the connected socket
ServerEvent(e, data) ==
  /\ socketService.socket = "connected"
  /\ socketService' =
       [socketService EXCEPT
          !.event = e,
          !.invoked = EmitEvent(socketService, e, data, socketService.listeners)]
  /\ UNCHANGED <<serverVars, pageVars, lockView, composerVars, sharedKeys,
                 viewVars, decryptVars>>

\* the chat page has not rendered a conversation
NotRendered == [chat |-> "none", list |-> "none"]

InitServer ==
  /\ published = [e \in {"user_online", "user_offline"} \X Users |-> 0]
  /\ emitted = [i \in Instances |-> [u \in Users |-> "none"]]
  /\ inbox = [i \in Instances |-> <<>>]
  /\ received = [s \in Sockets |-> <<>>]
  /\ messages = {}
  /\ msgSeq = 0
  /\ deleteH = IdleDelete
  /\ clock = 1
  /\ sendH = [h \in 1..MaxSends |-> IdleSend]
  /\ readH = [r \in 1..MaxReads |-> IdleRead]
  /\ createH = [k \in 1..MaxCreates |-> IdleCreate]

IdleComposer == [pc |-> "idle", messageText |-> "", loading |-> FALSE,
                 blocked |-> FALSE, conversationId |-> 0, friendId |-> "u1",
                 targetDeviceId |-> NoDevice, key |-> {}]
\* clients authenticated with the device of their connection, nothing loaded
InitClient ==
  /\ device = [c \in Clients |-> SocketDevice(c)]
  /\ clientConversations = [c \in Clients |-> {}]
  /\ activeConversation = [c \in Clients |-> 0]
  /\ loadH = [c \in Clients |-> IdleLoad]
  /\ lockView = [c \in Clients |-> NotRendered]
  /\ composer = [c \in Clients |-> IdleComposer]
  /\ requests = [c \in Clients |-> {}]
  /\ sharedKeys = [c \in Clients |-> {}]
  /\ clientMessages = [c \in Clients |-> {}]
  /\ seen = [c \in Clients |-> 0]
  /\ decryptH = [c \in Clients |-> IdleDecrypt]
  /\ keysApi = [c \in Clients |-> TRUE]
  /\ socketService = NoService

InitCommon == InitServer /\ devices = AllDevices /\ InitClient

\* two of the connections have authenticated: s1 (u1, instance 1) and s4 (u2,
\* instance 2)
TwoSockets ==
  [i \in Instances |-> IF i = 1 THEN [u \in {"u1"} |-> {"s1"}]
                                ELSE [u \in {"u2"} |-> {"s4"}]]

\* the relay in service: connections up, conversations established
InitService(registry) ==
  /\ InitCommon
  /\ userSockets = registry
  /\ sock = [s \in Sockets |-> IF s \in LocalSockets(SocketInstance(s), Users)
                                THEN "online" ELSE "new"]
  /\ conversations = TwoConversations
  /\ convSeq = 2
  /\ friendships = {{"u1", "u2"}, {"u1", "u3"}}
  /\ currentDeviceId = [u \in Users |-> NoDevice]

\* up to n sends, into the conversations convs, and their relay by the broker
Send(n, convs) ==
  \/ \E h \in 1..n, s \in Sockets, c \in convs :
       HandleMessage_isParticipant(h, s, c, SocketDevice(s), SomePayload)
  \/ \E h \in 1..n : HandleMessage_createMessage(h)
  \/ \E h \in 1..n : HandleMessage_getParticipantIds(h)
  \/ \E h \in 1..n : HandleMessage_emit(h)
  \/ \E h \in 1..n : HandleMessage_return(h)
  \/ \E i \in Instances : HandleRedisMessage(i)

Read ==
  \/ \E r \in 1..MaxReads, s \in Sockets, m \in 1..MaxSends : HandleRead_markRead(r, s, m)
  \/ \E r \in 1..MaxReads : HandleRead_getParticipantIds(r)
  \/ \E r \in 1..MaxReads : HandleRead_emit(r)

\* fan-out of sends to every connection, on both instances
InitFanout == InitService(AllSockets)
NextFanout == Send(MaxSends, {1, 2})
SpecFanout == InitFanout /\ [][NextFanout]_vars

\* sends against participants leaving their conversations
InitAuth == InitService(TwoSockets)
NextAuth ==
  \/ Send(MaxLeaveSends, {1, 2})
  \/ \E u \in Users, id \in 1..2, dm \in BOOLEAN : DeleteConversation(u, id, dm)
SpecAuth == InitAuth /\ [][NextAuth]_vars

\* the connections of u1, two on instance 1 and one on instance 2, opening and
\* closing on a relay with nobody connected
SocketsOf(u) == {s \in Sockets : SocketUser(s) = u}

InitPresence ==
  /\ InitCommon
  /\ userSockets = NoSockets
  /\ sock = [s \in Sockets |-> "new"]
  /\ conversations = TwoConversations
  /\ convSeq = 2
  /\ friendships = {{"u1", "u2"}, {"u1", "u3"}}
  /\ currentDeviceId = [u \in Users |-> NoDevice]
NextPresence ==
  \/ \E s \in SocketsOf("u1"), ok \in BOOLEAN : HandleConnection_register(s, ok)
  \/ \E s \in SocketsOf("u1") : HandleConnection_emit(s)
  \/ \E s \in SocketsOf("u1") : HandleDisconnect(s)
  \/ \E i \in Instances : HandleRedisPresence(i)
SpecPresence == InitPresence /\ [][NextPresence]_vars

\* users connecting to either gateway instance and asking for the online list:
\* u1 on instance 1 (s1) and u2 on instance 2 (s4)
SnapshotSockets == {"s1", "s4"}

SnapshotsSent(s) ==
  Cardinality({k \in 1..Len(received[s]) : received[s][k].type = "users:online"})

NextSnapshot ==
  \/ \E s \in SnapshotSockets : HandleConnection_register(s, TRUE)
  \/ \E s \in SnapshotSockets : HandleConnection_emit(s)
  \/ \E s \in SnapshotSockets : HandleDisconnect(s)
  \/ \E s \in SnapshotSockets :
       SnapshotsSent(s) < MaxSnapshots /\ HandleRequestOnlineUsers(s)
  \/ \E i \in Instances : HandleRedisPresence(i)
SpecSnapshot == InitPresence /\ [][NextSnapshot]_vars

\* conversations being resolved between users who log in with their devices;
\* no conversation exists and no user has logged in with a device yet
InitResolver ==
  /\ InitCommon
  /\ userSockets = TwoSockets
  /\ sock = [s \in Sockets |-> IF s \in {"s1", "s4"} THEN "online" ELSE "new"]
  /\ conversations = {}
  /\ convSeq = 0
  /\ friendships = {{"u1", "u2"}, {"u1", "u3"}}
  /\ currentDeviceId = [u \in Users |-> NoDevice]
NextResolver ==
  \/ \E u \in Users, d \in Devices : Login(u, d)
  \/ \E k \in 1..MaxCreates, u \in Users, d \in Devices, p \in Users,
        bt \in Devices \cup {NoDevice} : CreateConversation_findTargetUser(k, u, d, p, bt)
  \/ \E k \in 1..MaxCreates : CreateConversation_areFriends(k)
  \/ \E k \in 1..MaxCreates : CreateConversation_findFirst(k)
  \/ \E k \in 1..MaxCreates : CreateConversation_create(k)
  \/ \E k \in 1..MaxCreates : CreateConversation_publish(k)
  \/ \E i \in Instances : HandleRedisConversation(i)
SpecResolver == InitResolver /\ [][NextResolver]_vars

\* the delivery and read receipts of the stored messages, as time passes
InitStore == InitService(TwoSockets)
NextStore ==
  \/ Send(MaxSends, {1})
  \/ Read
  \/ \E s \in Sockets, m \in 1..MaxSends : HandleDelivered(s, m)
  \/ Tick
SpecStore == InitStore /\ [][NextStore]_vars

\* resolve calls issued one after the other: a call arrives only when no other
\* call is in flight and the broker has delivered what was published; between
\* calls users log in with their devices and leave conversations.  One request
\* slot serves all the calls, of u1 and u2, whose target device is the peer's
\* current device.
NoCreateInFlight ==
  /\ \A k \in 1..MaxCreates : createH[k].pc \in {"idle", "done", "failed"}
  /\ \A i \in Instances : inbox[i] = <<>>

InitSequential ==
  /\ InitCommon
  /\ userSockets = NoSockets
  /\ sock = [s \in Sockets |-> "new"]
  /\ conversations = {}
  /\ convSeq = 0
  /\ friendships = {{"u1", "u2"}, {"u1", "u3"}}
  /\ currentDeviceId = [u \in Users |-> NoDevice]
NextSequential ==
  \/ \E u \in {"u1", "u2"}, d \in Devices : Login(u, d)
  \/ \E u \in {"u1", "u2"}, d \in Devices, p \in {"u1", "u2"} :
        NoCreateInFlight /\ CreateConversation_findTargetUser(1, u, d, p, NoDevice)
  \/ CreateConversation_areFriends(1)
  \/ CreateConversation_findFirst(1)
  \/ convSeq < MaxConversations /\ CreateConversation_create(1)
  \/ CreateConversation_publish(1)
  \/ CreateConversation_return(1)
  \/ \E i \in Instances : HandleRedisConversation(i)
  \/ \E u \in {"u1", "u2"}, id \in 1..MaxConversations, dm \in BOOLEAN :
        NoCreateInFlight /\ DeleteConversation(u, id, dm)
SpecSequential == InitSequential /\ [][NextSequential]_vars

\* the lock predicates, over every device pair a conversation row can carry
\* and every device of the client
DeviceIdOrNull == Devices \cup {NoDevice}

InitLock ==
  /\ InitServer
  /\ devices = AllDevices
  /\ userSockets = NoSockets
  /\ sock = [s \in Sockets |-> "new"]
  /\ \E c \in DeviceIdOrNull, g \in DeviceIdOrNull :
       conversations = {[id |-> 1, createdByUserId |-> "u1", createdByDeviceId |-> c,
                         targetDeviceId |-> g, participants |-> {"u1", "u2"}]}
  /\ convSeq = 1
  /\ friendships = {{"u1", "u2"}, {"u1", "u3"}}
  /\ currentDeviceId = [u \in Users |-> NoDevice]
  /\ \E d \in Devices : device = [c \in Clients |-> IF c = "s1" THEN d ELSE SocketDevice(c)]
  /\ clientConversations = [c \in Clients |-> IF c = "s1" THEN conversations ELSE {}]
  /\ activeConversation = [c \in Clients |-> IF c = "s1" THEN 1 ELSE 0]
  /\ loadH = [c \in Clients |-> IdleLoad]
  /\ lockView = [c \in Clients |-> NotRendered]
  /\ composer = [c \in Clients |-> IdleComposer]
  /\ requests = [c \in Clients |-> {}]
  /\ sharedKeys = [c \in Clients |-> {}]
  /\ clientMessages = [c \in Clients |-> {}]
  /\ seen = [c \in Clients |-> 0]
  /\ decryptH = [c \in Clients |-> IdleDecrypt]
  /\ keysApi = [c \in Clients |-> TRUE]
  /\ socketService = NoService
NextLock == RenderChat("s1") \/ RenderList("s1")
SpecLock == InitLock /\ [][NextLock]_vars

\* u1's client on one of its devices, with the conversation of any two device
\* ids: message 1 of u2 is in the history, message 2 has just been emitted to
\* the connection; the client opens the conversation and handles the event
AccessPayload(x) == Encrypt(x, {"a1", "b1"}, 1)

InitAccess ==
  /\ published = [e \in {"user_online", "user_offline"} \X Users |-> 0]
  /\ emitted = [i \in Instances |-> [u \in Users |-> "none"]]
  /\ inbox = [i \in Instances |-> <<>>]
  /\ received = [s \in Sockets |->
        IF s = "s1" THEN <<messageData("message:new", 2, 1, "u2", "b1", AccessPayload("yo"))>>
        ELSE <<>>]
  /\ messages = createMessage(createMessage({}, 1, 1, "u2", "b1", AccessPayload("hi"), 1),
                              2, 1, "u2", "b1", AccessPayload("yo"), 1)
  /\ msgSeq = 2
  /\ deleteH = IdleDelete
  /\ clock = 1
  /\ sendH = [h \in 1..MaxSends |-> IdleSend]
  /\ readH = [r \in 1..MaxReads |-> IdleRead]
  /\ createH = [k \in 1..MaxCreates |-> IdleCreate]
  /\ devices = AllDevices
  /\ userSockets = TwoSockets
  /\ sock = [s \in Sockets |-> IF s \in {"s1", "s4"} THEN "online" ELSE "new"]
  /\ \E c \in DeviceIdOrNull, g \in DeviceIdOrNull :
       conversations = {[id |-> 1, createdByUserId |-> "u1", createdByDeviceId |-> c,
                         targetDeviceId |-> g, participants |-> {"u1", "u2"}]}
  /\ convSeq = 1
  /\ friendships = {{"u1", "u2"}, {"u1", "u3"}}
  /\ currentDeviceId = [u \in Users |-> NoDevice]
  /\ \E d \in {"a1", "a2"} :
       device = [c \in Clients |-> IF c = "s1" THEN d ELSE SocketDevice(c)]
  /\ clientConversations = [c \in Clients |-> IF c = "s1" THEN conversations ELSE {}]
  /\ \E a \in 0..1 : activeConversation = [c \in Clients |-> IF c = "s1" THEN a ELSE 0]
  /\ loadH = [c \in Clients |-> IdleLoad]
  /\ lockView = [c \in Clients |-> NotRendered]
  /\ composer = [c \in Clients |-> IdleComposer]
  /\ requests = [c \in Clients |-> {}]
  /\ sharedKeys = [c \in Clients |-> {}]
  /\ clientMessages = [c \in Clients |-> {}]
  /\ seen = [c \in Clients |-> 0]
  /\ decryptH = [c \in Clients |-> IdleDecrypt]
  /\ keysApi = [c \in Clients |-> TRUE]
  /\ socketService = NoService

NextAccess ==
  \/ activeConversation["s1"] = 0 /\ SelectConversation("s1", 1)
  \/ LoadMessages_setMessages("s1", keysApi["s1"])
  \/ LoadMessages_decrypt("s1")
  \/ OnMessage("s1")
  \/ DecryptMessage_userKey("s1", keysApi["s1"])
  \/ DecryptMessage_deviceKey("s1", keysApi["s1"])
  \/ DecryptMessage_allDevices("s1", keysApi["s1"])
  \/ DecryptMessage_tryDevice("s1", keysApi["s1"])
  \/ RetryDecryption_timer("s1")
  \/ RetryDecryption_deviceKey("s1", keysApi["s1"])
  \/ RetryDecryption_allDevices("s1", keysApi["s1"])
  \/ RetryDecryption_tryDevice("s1", keysApi["s1"])
  \/ RetryFailedDecryptions("s1")
  \/ RenderChat("s1")
SpecAccess == InitAccess /\ [][NextAccess]_vars

\* sends, read receipts and deletions in conversation 1 (u1, u2) and
\* conversation 2 (u1, u3) while participants leave; u1 is connected to
\* instance 1 and u2 to instance 2
InitConfine == InitService(TwoSockets)
NextConfine ==
  \/ Send(MaxLeaveSends, {1, 2})
  \/ \E r \in 1..MaxReads, s \in {"s1", "s4"}, m \in 1..MaxLeaveSends :
       HandleRead_markRead(r, s, m)
  \/ \E r \in 1..MaxReads : HandleRead_getParticipantIds(r)
  \/ \E r \in 1..MaxReads : HandleRead_emit(r)
  \/ \E u \in Users, id \in 1..2 : DeleteConversation(u, id, FALSE)
  \/ \E u \in Users, id \in 1..2 :
       /\ \E m \in messages : m.conversationId = id
       /\ DeleteConversationMessages_isParticipant(u, id)
  \/ DeleteConversationMessages_deleteByConversationId
  \/ DeleteConversationMessages_getParticipantIds
  \/ DeleteConversationMessages_publish
SpecConfine == InitConfine /\ [][NextConfine]_vars

\* the Key Registry in use: devices are registered, revoked and deleted while
\* their users log in with them and send with them into conversation 1
InitRegistry ==
  /\ InitServer
  /\ InitClient
  /\ devices = {x \in AllDevices : x.id \in {"a1", "b1"}}
  /\ userSockets = TwoSockets
  /\ sock = [s \in Sockets |-> IF s \in {"s1", "s4"} THEN "online" ELSE "new"]
  /\ conversations = TwoConversations
  /\ convSeq = 2
  /\ friendships = {{"u1", "u2"}, {"u1", "u3"}}
  /\ currentDeviceId = [u \in Users |-> IF u = "u1" THEN "a1"
                                         ELSE IF u = "u2" THEN "b1" ELSE NoDevice]
NextRegistry ==
  \/ \E u \in Users, d \in Devices :
       NextCreatedAt(devices) <= MaxDeviceTime /\ RegisterDevice(u, d)
  \/ \E d \in Devices : RevokeDevice(d)
  \/ \E u \in Users, d \in Devices : DeleteDevice(u, d)
  \/ \E u \in Users, d \in Devices :
       (\E x \in devices : x.id = d /\ ~x.revoked) /\ Login(u, d)
  \/ \E h \in 1..MaxLeaveSends, s \in Sockets, d \in Devices :
       HandleMessage_isParticipant(h, s, 1, d, SomePayload)
  \/ \E h \in 1..MaxLeaveSends : HandleMessage_createMessage(h)
  \/ \E h \in 1..MaxLeaveSends : HandleMessage_getParticipantIds(h)
  \/ \E h \in 1..MaxLeaveSends : HandleMessage_emit(h)
  \/ \E h \in 1..MaxLeaveSends : HandleMessage_return(h)
  \/ \E i \in Instances : HandleRedisMessage(i)
SpecRegistry == InitRegistry /\ [][NextRegistry]_vars

\* conversations being created while both peers are connected, each on its own
\* gateway instance; u1 is logged in with a1 and u2 with b1, u2 and u3 are not
\* friends.  A request is made from the caller's current device and names no
\* target device.  The Redis subscriber of an instance runs its callback whenever a
\* publication is pending.
InitCreate ==
  /\ InitCommon
  /\ userSockets = TwoSockets
  /\ sock = [s \in Sockets |-> IF s \in {"s1", "s4"} THEN "online" ELSE "new"]
  /\ conversations = {}
  /\ convSeq = 0
  /\ friendships = {{"u1", "u2"}, {"u1", "u3"}}
  /\ currentDeviceId = [u \in Users |-> IF u = "u1" THEN "a1"
                                         ELSE IF u = "u2" THEN "b1" ELSE NoDevice]
NextCreate ==
  \/ \E k \in 1..MaxPeerCreates, u \in Users, p \in Users :
       CreateConversation_findTargetUser(k, u, currentDeviceId[u], p, NoDevice)
  \/ \E k \in 1..MaxPeerCreates : CreateConversation_areFriends(k)
  \/ \E k \in 1..MaxPeerCreates : CreateConversation_findFirst(k)
  \/ \E k \in 1..MaxPeerCreates : CreateConversation_create(k)
  \/ \E k \in 1..MaxPeerCreates : CreateConversation_publish(k)
  \/ \E i \in Instances : HandleRedisConversation(i)
SpecCreate ==
  /\ InitCreate
  /\ [][NextCreate]_vars
  /\ \A i \in Instances : WF_vars(HandleRedisConversation(i))

\* two clients composing: u1's client on device a1 and u2's on b1, both with
\* the two conversations of u1 and u2 loaded; conversation 1 is scoped to
\* (a1, b1) and conversation 2 to (a2, b1).  A client sends one message.
ComposeConversations ==
  {[id |-> 1, createdByUserId |-> "u1", createdByDeviceId |-> "a1",
    targetDeviceId |-> "b1", participants |-> {"u1", "u2"}],
   [id |-> 2, createdByUserId |-> "u1", createdByDeviceId |-> "a2",
    targetDeviceId |-> "b1", participants |-> {"u1", "u2"}]}

NothingSent(c) == ~\E r \in requests[c] : r.call = "message:send"

InitCompose ==
  /\ InitServer
  /\ devices = AllDevices
  /\ userSockets = TwoSockets
  /\ sock = [s \in Sockets |-> IF s \in {"s1", "s4"} THEN "online" ELSE "new"]
  /\ conversations = ComposeConversations
  /\ convSeq = 2
  /\ friendships = {{"u1", "u2"}, {"u1", "u3"}}
  /\ currentDeviceId = [u \in Users |-> IF u = "u1" THEN "a1"
                                         ELSE IF u = "u2" THEN "b1" ELSE NoDevice]
  /\ device = [c \in Clients |-> SocketDevice(c)]
  /\ clientConversations = [c \in Clients |-> ComposeConversations]
  /\ activeConversation = [c \in Clients |-> 0]
  /\ loadH = [c \in Clients |-> IdleLoad]
  /\ lockView = [c \in Clients |-> NotRendered]
  /\ composer = [c \in Clients |-> IdleComposer]
  /\ requests = [c \in Clients |-> {}]
  /\ sharedKeys = [c \in Clients |-> {}]
  /\ clientMessages = [c \in Clients |-> {}]
  /\ seen = [c \in Clients |-> 0]
  /\ decryptH = [c \in Clients |-> IdleDecrypt]
  /\ keysApi = [c \in Clients |-> TRUE]
  /\ socketService = NoService
Senders == {"s1"}
Receivers == {"s4"}

\* the sender's page alone: it opens conversations, composes and sees its own
\* message come back; the key it sent with is in its cache, so the first two
\* attempts of decryptMessage are the only ones it makes
NextCompose ==
  \/ \E c \in Senders, id \in 1..2 : SelectConversation(c, id)
  \/ \E c \in Senders, x \in Plaintexts : TypeMessage(c, x)
  \/ \E c \in Senders : NothingSent(c) /\ SubmitForm(c)
  \/ \E c \in Senders : HandleSendMessage_derive(c, keysApi[c])
  \/ \E c \in Senders, n \in 1..MaxNonce : HandleSendMessage_send(c, n)
  \/ \E c \in Senders : HandleSendMessage_ack(c)
  \/ \E h \in 1..MaxLeaveSends, c \in Senders : \E r \in PendingSend(c) :
       HandleMessage_isParticipant(h, c, r.conversationId, r.senderDeviceId, r.payload)
  \/ \E h \in 1..MaxLeaveSends : HandleMessage_createMessage(h)
  \/ \E h \in 1..MaxLeaveSends : HandleMessage_getParticipantIds(h)
  \/ \E h \in 1..MaxLeaveSends : HandleMessage_emit(h)
  \/ \E h \in 1..MaxLeaveSends : HandleMessage_return(h)
  \/ \E i \in Instances : HandleRedisMessage(i)
  \/ \E c \in Senders : OnMessage(c)
  \/ \E c \in Senders : DecryptMessage_userKey(c, keysApi[c])
  \/ \E c \in Senders : DecryptMessage_deviceKey(c, keysApi[c])
  \/ \E c \in Senders : LoadMessages_setMessages(c, keysApi[c])
  \/ \E c \in Senders : LoadMessages_decrypt(c)
  \/ \E c \in Senders : KeysApiFails(c)
  \/ \E c \in Senders : KeysApiRecovers(c)
SpecCompose == InitCompose /\ [][NextCompose]_vars

\* u1's client has conversation 1 open and composes; u2's client receives
InitDeliver ==
  /\ InitServer
  /\ devices = AllDevices
  /\ userSockets = TwoSockets
  /\ sock = [s \in Sockets |-> IF s \in {"s1", "s4"} THEN "online" ELSE "new"]
  /\ conversations = ComposeConversations
  /\ convSeq = 2
  /\ friendships = {{"u1", "u2"}, {"u1", "u3"}}
  /\ currentDeviceId = [u \in Users |-> IF u = "u1" THEN "a1"
                                         ELSE IF u = "u2" THEN "b1" ELSE NoDevice]
  /\ device = [c \in Clients |-> SocketDevice(c)]
  /\ clientConversations = [c \in Clients |-> ComposeConversations]
  /\ \E a \in 0..2 : activeConversation = [c \in Clients |-> IF c = "s1" THEN 1 ELSE a]
  /\ loadH = [c \in Clients |-> IdleLoad]
  /\ lockView = [c \in Clients |-> NotRendered]
  /\ composer = [c \in Clients |-> IdleComposer]
  /\ requests = [c \in Clients |-> {}]
  /\ sharedKeys = [c \in Clients |-> {}]
  /\ clientMessages = [c \in Clients |-> {}]
  /\ seen = [c \in Clients |-> 0]
  /\ decryptH = [c \in Clients |-> IdleDecrypt]
  /\ keysApi = [c \in Clients |-> TRUE]
  /\ socketService = NoService
NextDeliver ==
  \/ \E c \in Senders, x \in Plaintexts : TypeMessage(c, x)
  \/ \E c \in Senders : NothingSent(c) /\ SubmitForm(c)
  \/ \E c \in Senders : HandleSendMessage_derive(c, keysApi[c])
  \/ \E c \in Senders, n \in 1..MaxNonce : HandleSendMessage_send(c, n)
  \/ \E c \in Senders : HandleSendMessage_ack(c)
  \/ \E h \in 1..MaxLeaveSends, c \in Senders : \E r \in PendingSend(c) :
       HandleMessage_isParticipant(h, c, r.conversationId, r.senderDeviceId, r.payload)
  \/ \E h \in 1..MaxLeaveSends : HandleMessage_createMessage(h)
  \/ \E h \in 1..MaxLeaveSends : HandleMessage_getParticipantIds(h)
  \/ \E h \in 1..MaxLeaveSends : HandleMessage_emit(h)
  \/ \E h \in 1..MaxLeaveSends : HandleMessage_return(h)
  \/ \E i \in Instances : HandleRedisMessage(i)
  \/ \E c \in Receivers : OnMessage(c)
  \/ \E c \in Receivers : DecryptMessage_userKey(c, keysApi[c])
  \/ \E c \in Receivers : DecryptMessage_deviceKey(c, keysApi[c])
  \/ \E c \in Receivers : DecryptMessage_allDevices(c, keysApi[c])
  \/ \E c \in Receivers : DecryptMessage_tryDevice(c, keysApi[c])
  \/ \E c \in Receivers : RetryDecryption_timer(c)
  \/ \E c \in Receivers : RetryDecryption_deviceKey(c, keysApi[c])
  \/ \E c \in Receivers : RetryDecryption_allDevices(c, keysApi[c])
  \/ \E c \in Receivers : RetryDecryption_tryDevice(c, keysApi[c])
  \/ \E c \in Receivers : RetryFailedDecryptions(c)
  \/ \E c \in Clients : KeysApiFails(c)
  \/ \E c \in Clients : KeysApiRecovers(c)
SpecDeliver == InitDeliver /\ [][NextDeliver]_vars

\* the event loop of the receiving page runs every listener, continuation and
\* timer that is ready; the gateway runs its handlers and subscriber callbacks
FairDeliver ==
  /\ \A c \in Receivers :
       /\ WF_vars(OnMessage(c))
       /\ WF_vars(DecryptMessage_userKey(c, keysApi[c]))
       /\ WF_vars(DecryptMessage_deviceKey(c, keysApi[c]))
       /\ WF_vars(DecryptMessage_allDevices(c, keysApi[c]))
       /\ WF_vars(DecryptMessage_tryDevice(c, keysApi[c]))
       /\ WF_vars(RetryDecryption_timer(c))
       /\ WF_vars(RetryDecryption_deviceKey(c, keysApi[c]))
       /\ WF_vars(RetryDecryption_allDevices(c, keysApi[c]))
       /\ WF_vars(RetryDecryption_tryDevice(c, keysApi[c]))
       /\ WF_vars(RetryFailedDecryptions(c))
  /\ \A h \in 1..MaxLeaveSends :
       /\ WF_vars(HandleMessage_createMessage(h))
       /\ WF_vars(HandleMessage_getParticipantIds(h))
       /\ WF_vars(HandleMessage_emit(h))
       /\ WF_vars(HandleMessage_return(h))
  /\ \A i \in Instances : WF_vars(HandleRedisMessage(i))
SpecRetry == SpecDeliver /\ FairDeliver

\* u1 sends in conversation 1 and a participant deletes its messages while
\* u2's client, which may open the conversation later, decrypts and retries
DeletesAnnounced ==
  Cardinality({k \in 1..Len(received["s1"]) : received["s1"][k].type = "messages:deleted"})
  + Cardinality({k \in 1..Len(inbox[1]) : inbox[1][k].type = "messages_deleted"})

InitTeardown ==
  /\ InitDeliver
  /\ activeConversation["s4"] = 0

NextTeardown ==
  \/ \E c \in Senders : TypeMessage(c, "hi")
  \/ \E c \in Senders : NothingSent(c) /\ SubmitForm(c)
  \/ \E c \in Senders : HandleSendMessage_derive(c, keysApi[c])
  \/ \E c \in Senders, n \in 1..MaxNonce : HandleSendMessage_send(c, n)
  \/ \E c \in Senders : HandleSendMessage_ack(c)
  \/ \E h \in 1..MaxLeaveSends, c \in Senders : \E r \in PendingSend(c) :
       HandleMessage_isParticipant(h, c, r.conversationId, r.senderDeviceId, r.payload)
  \/ \E h \in 1..MaxLeaveSends : HandleMessage_createMessage(h)
  \/ \E h \in 1..MaxLeaveSends : HandleMessage_getParticipantIds(h)
  \/ \E h \in 1..MaxLeaveSends : HandleMessage_emit(h)
  \/ \E h \in 1..MaxLeaveSends : HandleMessage_return(h)
  \/ \E i \in Instances : HandleRedisMessage(i)
  \/ \E u \in {"u1", "u3"} :
       DeletesAnnounced < MaxDeletes /\ DeleteConversationMessages_isParticipant(u, 1)
  \/ DeleteConversationMessages_deleteByConversationId
  \/ DeleteConversationMessages_getParticipantIds
  \/ DeleteConversationMessages_publish
  \/ \E c \in Receivers : OnMessage(c)
  \/ \E c \in Receivers : OnMessagesDeleted(c)
  \/ \E c \in Receivers : activeConversation[c] = 0 /\ SelectConversation(c, 1)
  \/ \E c \in Receivers : LoadMessages_setMessages(c, keysApi[c])
  \/ \E c \in Receivers : LoadMessages_decrypt(c)
  \/ \E c \in Receivers : DecryptMessage_userKey(c, keysApi[c])
  \/ \E c \in Receivers : DecryptMessage_deviceKey(c, keysApi[c])
  \/ \E c \in Receivers : DecryptMessage_allDevices(c, keysApi[c])
  \/ \E c \in Receivers : DecryptMessage_tryDevice(c, keysApi[c])
  \/ \E c \in Receivers : RetryDecryption_timer(c)
  \/ \E c \in Receivers : RetryDecryption_deviceKey(c, keysApi[c])
  \/ \E c \in Receivers : RetryDecryption_allDevices(c, keysApi[c])
  \/ \E c \in Receivers : RetryDecryption_tryDevice(c, keysApi[c])
  \/ \E c \in Receivers : RetryFailedDecryptions(c)
  \/ \E c \in Receivers : KeysApiFails(c)
  \/ \E c \in Receivers : KeysApiRecovers(c)
SpecTeardown == InitTeardown /\ [][NextTeardown]_vars

\* u2's client loses its connection and reconnects while u1 sends in
\* conversation 1 and asks for its conversation with u2 again, which is
\* resolved to an existing one and announced to u2
InitReconnect ==
  /\ InitDeliver
  /\ activeConversation["s4"] \in {0, 1}

NextReconnect ==
  \/ \E c \in Receivers :
       published[<<"user_offline", SocketUser(c)>>] < MaxDrops /\ HandleDisconnect(c)
  \/ \E c \in Receivers : Reconnect(c)
  \/ \E c \in Receivers : HandleConnection_register(c, TRUE)
  \/ \E c \in Receivers : HandleConnection_emit(c)
  \/ \E i \in Instances : HandleRedisPresence(i)
  \/ \E h \in 1..MaxLeaveSends, c \in Senders :
       HandleMessage_isParticipant(h, c, 1, device[c], SomePayload)
  \/ \E h \in 1..MaxLeaveSends : HandleMessage_createMessage(h)
  \/ \E h \in 1..MaxLeaveSends : HandleMessage_getParticipantIds(h)
  \/ \E h \in 1..MaxLeaveSends : HandleMessage_emit(h)
  \/ \E h \in 1..MaxLeaveSends : HandleMessage_return(h)
  \/ \E i \in Instances : HandleRedisMessage(i)
  \/ \E c \in Senders :
       CreateConversation_findTargetUser(1, SocketUser(c), device[c], "u2", NoDevice)
  \/ CreateConversation_areFriends(1)
  \/ CreateConversation_findFirst(1)
  \/ CreateConversation_publish(1)
  \/ \E i \in Instances : HandleRedisConversation(i)
  \/ \E c \in Receivers : OnMessage(c)
  \/ \E c \in Receivers : OnNewConversation(c)
  \/ \E c \in Receivers : OnOtherEvent(c)
  \/ \E c \in Receivers : DecryptMessage_userKey(c, keysApi[c])
  \/ \E c \in Receivers : DecryptMessage_deviceKey(c, keysApi[c])
  \/ \E c \in Receivers : LoadConversations_setConversations(c, keysApi[c])
  \/ \E c \in Receivers : LoadConversations_setMessages(c, keysApi[c])
  \/ \E c \in Receivers : SelectConversation(c, 1)
  \/ \E c \in Receivers : LoadMessages_setMessages(c, keysApi[c])
  \/ \E c \in Receivers : LoadMessages_decrypt(c)

\* everything but the users' own actions and the loss of the connection
\* happens when it can: the gateway's handlers and subscriber callbacks, the
\* socket.io client's reconnection, the page's listeners and continuations
FairReconnect ==
  /\ \A c \in Receivers :
       /\ WF_vars(Reconnect(c))
       /\ WF_vars(HandleConnection_register(c, TRUE))
       /\ WF_vars(HandleConnection_emit(c))
       /\ WF_vars(OnMessage(c))
       /\ WF_vars(OnNewConversation(c))
       /\ WF_vars(OnOtherEvent(c))
       /\ WF_vars(DecryptMessage_userKey(c, keysApi[c]))
       /\ WF_vars(DecryptMessage_deviceKey(c, keysApi[c]))
       /\ WF_vars(LoadConversations_setConversations(c, keysApi[c]))
       /\ WF_vars(LoadConversations_setMessages(c, keysApi[c]))
       /\ WF_vars(LoadMessages_setMessages(c, keysApi[c]))
       /\ WF_vars(LoadMessages_decrypt(c))
  /\ \A h \in 1..MaxLeaveSends :
       /\ WF_vars(HandleMessage_createMessage(h))
       /\ WF_vars(HandleMessage_getParticipantIds(h))
       /\ WF_vars(HandleMessage_emit(h))
       /\ WF_vars(HandleMessage_return(h))
  /\ WF_vars(CreateConversation_areFriends(1))
  /\ WF_vars(CreateConversation_findFirst(1))
  /\ WF_vars(CreateConversation_publish(1))
  /\ \A i \in Instances :
       /\ WF_vars(HandleRedisPresence(i))
       /\ WF_vars(HandleRedisMessage(i))
       /\ WF_vars(HandleRedisConversation(i))
SpecReconnect == InitReconnect /\ [][NextReconnect]_vars /\ FairReconnect

\* ---- the SocketService under any order of calls of its methods ----
\* the arrays the page subscribes to here; the other four behave as
\* messageCallbacks does
ServiceLists == {"messageCallbacks", "presenceCallbacks", "newConversationCallbacks"}
\* payloads: the user ids of users:online, one value for every other event
EventData(e) == IF e = "users:online" THEN {<<"u1">>, <<"u1", "u2">>} ELSE {"data"}
\* the callbacks currently in an array
Registered(l) == {socketService.callbacks[l][i] : i \in DOMAIN socketService.callbacks[l]}
InitSocket == InitService(TwoSockets)
\* every subscription passes a function that is not in the array already
NextSocket ==
  \/ socketService.listeners < MaxListeners /\ Connect
  \/ SocketConnects
  \/ SocketDrops
  \/ Disconnect
  \/ \E l \in ServiceLists, cb \in Callbacks :
       /\ cb \notin Registered(l)
       /\ socketService.onlineRequests < MaxOnlineRequests
       /\ Subscribe(l, cb)
  \/ \E l \in ServiceLists, cb \in Callbacks : Unsubscribe(l, cb)
  \/ \E e \in ServerEvents : \E data \in EventData(e) : ServerEvent(e, data)
SpecSocket == InitSocket /\ [][NextSocket]_vars

(***************************************************************************)
(* C2: an online event is published once per user id, not per connection:  *)
(* when handleConnection registers a connection of a user who already has  *)
(* a registered connection on that gateway, nothing more is published on   *)
(* the broker.                                                             *)
(***************************************************************************)
C2_OnlinePublishedOncePerUser ==
  [][\A s \in Sockets :
       (/\ sock[s] = "new"
        /\ sock'[s] = "publishing"
        /\ SocketUser(s) \in DOMAIN userSockets[SocketInstance(s)])
       => (published' = published /\ inbox' = inbox)]_vars

NewMessageAt(s, m) ==
  {k \in 1..Len(received[s]) :
     received[s][k].type = "message:new" /\ received[s][k].id = m}

FirstNewMessageAt(s, m) ==
  CHOOSE k \in NewMessageAt(s, m) : \A j \in NewMessageAt(s, m) : k <= j

\* the broker still holds the new_message of m for instance i
PendingAt(i, m) ==
  \E k \in 1..Len(inbox[i]) : inbox[i][k].type = "new_message" /\ inbox[i][k].id = m

(***************************************************************************)
(* C1: for every successful send, every live connection of every           *)
(* participant, on the instance that handled the send and on the others,   *)
(* receives message:new for the message exactly once: never twice, and     *)
(* once when the broker has handed the message to the connection's         *)
(* instance.                                                               *)
(***************************************************************************)
C1_DeliveredExactlyOnce ==
  \A h \in 1..MaxSends :
    sendH[h].result = "success" =>
      \A s \in Sockets :
        (Connected(s) /\ SocketUser(s) \in sendH[h].participantIds) =>
          /\ Cardinality(NewMessageAt(s, sendH[h].messageId)) <= 1
          /\ ~PendingAt(SocketInstance(s), sendH[h].messageId)
               => Cardinality(NewMessageAt(s, sendH[h].messageId)) = 1

(***************************************************************************)
(* C6: the messages of one conversation reach a connection in the order    *)
(* in which the gateway persisted them (message ids are handed out in that *)
(* order): a connection that has received m1 and m2, m1 persisted first,   *)
(* received m1 first.                                                      *)
(***************************************************************************)
C6_FifoPerConversation ==
  \A s \in Sockets : \A m1, m2 \in MsgIds :
    (/\ m1 < m2
     /\ MsgById(m1).conversationId = MsgById(m2).conversationId
     /\ NewMessageAt(s, m1) # {}
     /\ NewMessageAt(s, m2) # {})
    => FirstNewMessageAt(s, m1) < FirstNewMessageAt(s, m2)

(***************************************************************************)
(* C4: a send by a user who is not a current participant of the named      *)
(* conversation returns an error and has no side effect: no message row,   *)
(* no event to any connection, nothing on the broker; every stored or      *)
(* relayed message stems from a send that was not rejected.                *)
(***************************************************************************)
AcceptedMessageIds ==
  {sendH[h].messageId : h \in {k \in 1..MaxSends : sendH[k].result # "error"}} \ {0}

C4_RejectedSendStep ==
  \A h \in 1..MaxSends :
    (/\ sendH[h].pc = "idle"
     /\ sendH'[h].pc # "idle"
     /\ ~\E c \in conversations :
           /\ c.id = sendH'[h].conversationId
           /\ SocketUser(sendH'[h].client) \in c.participants)
    => /\ sendH'[h].pc = "done"
       /\ sendH'[h].result = "error"
       /\ UNCHANGED <<messages, msgSeq, received, inbox, socketService>>

C4_OnlyAcceptedSendsRelayed ==
  /\ \A h \in 1..MaxSends : sendH[h].result = "error" => sendH[h].pc = "done"
  /\ MsgIds \subseteq AcceptedMessageIds
  /\ \A s \in Sockets : \A k \in 1..Len(received[s]) :
       received[s][k].type = "message:new" => received[s][k].id \in AcceptedMessageIds
  /\ \A i \in Instances : \A k \in 1..Len(inbox[i]) :
       inbox[i][k].type = "new_message" => inbox[i][k].id \in AcceptedMessageIds

C4_UnauthorizedSendRejected ==
  [][C4_RejectedSendStep]_vars /\ []C4_OnlyAcceptedSendsRelayed

\* u2 left conversation 1, which u1 still has, and the send of u2 into it was
\* rejected
C4_Witness ==
  \E h \in 1..MaxSends :
    /\ sendH[h].result = "error"
    /\ sendH[h].client = "s4"
    /\ sendH[h].conversationId = 1
    /\ 1 \in ConvIds

(***************************************************************************)
(* C7: markDelivered and markRead are set-once: a deliveredAt (readAt)     *)
(* that is set is never changed by a later step.                           *)
(***************************************************************************)
C7_TimestampsSetOnce ==
  [][\A m \in messages : \A n \in messages' :
       n.id = m.id =>
         /\ m.deliveredAt # Null => n.deliveredAt = m.deliveredAt
         /\ m.readAt # Null => n.readAt = m.readAt]_vars

(***************************************************************************)
(* C8: a message is delivered before it is read: readAt set implies        *)
(* deliveredAt set and not later than readAt.                              *)
(***************************************************************************)
C8_DeliveredBeforeRead ==
  \A m \in messages :
    m.readAt # Null => (m.deliveredAt # Null /\ m.deliveredAt <= m.readAt)

(***************************************************************************)
(* C9: a completed markRead has broadcast the read receipt to every live   *)
(* connection of every participant of the conversation, on whichever       *)
(* instance the connection is held: each has received message:read with    *)
(* the message id and its readAt.                                          *)
(***************************************************************************)
C9_ReadReceiptToAllParticipants ==
  \A r \in 1..MaxReads :
    readH[r].result = "success" =>
      \A s \in Sockets :
        (Connected(s) /\ SocketUser(s) \in readH[r].participantIds) =>
          \E k \in 1..Len(received[s]) :
            received[s][k] = [type |-> "message:read", id |-> readH[r].messageId,
                              readAt |-> readH[r].readAt]

(***************************************************************************)
(* C5: concurrent resolve calls never leave more than one direct           *)
(* conversation scoped to one unordered device pair between the same two   *)
(* users.                                                                  *)
(***************************************************************************)
C5_OneConversationPerDevicePair ==
  \A c1, c2 \in conversations :
    (/\ c1.createdByDeviceId # NoDevice /\ c1.targetDeviceId # NoDevice
     /\ {c1.createdByDeviceId, c1.targetDeviceId} = {c2.createdByDeviceId, c2.targetDeviceId}
     /\ c1.participants = c2.participants
     /\ Cardinality(c1.participants) = 2)
    => c1.id = c2.id

(***************************************************************************)
(* C10: while a conversation of two users with a null target device exists *)
(* and no device-specific conversation of the two has superseded it, a     *)
(* resolve for the two users that arrives later creates no other           *)
(* conversation (it returns the existing one).                             *)
(***************************************************************************)
C10_NullTargetConversationReused ==
  [][\A k \in 1..MaxCreates :
       (createH[k].pc = "create" /\ createH'[k].pc = "publish")
       => ~\E c \in conversations :
             /\ c.id <= createH[k].startSeq
             /\ c.participants = {createH[k].creatorId, createH[k].peerId}
             /\ c.targetDeviceId = NoDevice
             /\ ~\E d \in conversations :
                   /\ d.participants = c.participants
                   /\ d.targetDeviceId # NoDevice]_vars

(***************************************************************************)
(* C11: lookup is order-independent and resolve is idempotent.  After      *)
(* resolve calls issued one after the other, at most one direct            *)
(* conversation exists per unordered device pair between the same two      *)
(* users, and a resolve for a device pair returns the conversation the     *)
(* first resolve for that pair (in either order) returned: no older        *)
(* conversation of the two users on that pair exists beside its result.    *)
(***************************************************************************)
SamePair(c, d1, d2) ==
  /\ d1 # NoDevice /\ d2 # NoDevice
  /\ {c.createdByDeviceId, c.targetDeviceId} = {d1, d2}

C11_SequentialResolveIdempotent ==
  /\ \A c1, c2 \in conversations :
       (/\ SamePair(c1, c2.createdByDeviceId, c2.targetDeviceId)
        /\ c1.participants = c2.participants
        /\ Cardinality(c1.participants) = 2)
       => c1.id = c2.id
  /\ \A k \in 1..MaxCreates :
       createH[k].pc \in {"publish", "done"}
       => ~\E c \in conversations :
             /\ c.id < createH[k].result
             /\ SamePair(c, createH[k].createdByDeviceId, createH[k].targetDeviceId)
             /\ c.participants = {createH[k].creatorId, createH[k].peerId}

(***************************************************************************)
(* C12: the lock predicate returns locked exactly when both device ids of  *)
(* the conversation are non-null and neither is the client's device; a     *)
(* conversation with one device id or none is never locked; the chat view  *)
(* and the conversation list agree.                                        *)
(***************************************************************************)
LockedBySpec(c, dev) ==
  /\ c.createdByDeviceId # NoDevice
  /\ c.targetDeviceId # NoDevice
  /\ c.createdByDeviceId # dev
  /\ c.targetDeviceId # dev

C12_LockPredicate ==
  \A c \in Clients : \A v \in clientConversations[c] :
    v.id = activeConversation[c] =>
      /\ lockView[c].chat # "none"
         => lockView[c].chat = LockLabel(LockedBySpec(v, device[c]))
      /\ lockView[c].list # "none"
         => lockView[c].list = LockLabel(LockedBySpec(v, device[c]))
      /\ (lockView[c].chat # "none" /\ lockView[c].list # "none")
         => lockView[c].chat = lockView[c].list

(***************************************************************************)
(* C14: device records are retained forever.  No step removes a device     *)
(* from what the Key Registry lookup by user returns: every device the     *)
(* lookup returned before a register, revoke or delete-device operation,   *)
(* revoked ones included, it still returns afterwards.                     *)
(***************************************************************************)
C14_DeviceKeysRetained ==
  [][\A u \in Users :
       getDevicePublicKeys(devices, u) \subseteq getDevicePublicKeys(devices', u)]_vars

(***************************************************************************)
(* C15: a send whose senderDeviceId names a revoked device is rejected     *)
(* with no state change: no step of the send handler persists a message    *)
(* whose sender device is revoked, and no newMessage event or broker       *)
(* publication carrying such a sender device is produced.                  *)
(***************************************************************************)
C15_RevokedSenderRejected ==
  [][/\ \A m \in messages' \ messages : ~IsRevoked(devices, m.senderDeviceId)
     /\ \A h \in 1..MaxSends :
          (sendH[h].pc = "emit" /\ sendH'[h].pc = "return")
          => ~IsRevoked(devices, sendH[h].senderDeviceId)]_vars

(***************************************************************************)
(* C16: creating a direct conversation between two users who are not       *)
(* friends fails and changes nothing: the friendship check of such a       *)
(* request ends the request with no conversation or participant row        *)
(* created and nothing published, and the request stays failed; every      *)
(* conversation and every conversation-created event is between friends.   *)
(***************************************************************************)
C16_FailedStep ==
  \A k \in 1..MaxCreates :
    /\ (createH[k].pc = "areFriends" /\ createH'[k].pc # "areFriends"
          /\ {createH[k].creatorId, createH[k].peerId} \notin friendships)
       => /\ createH'[k].pc = "failed"
          /\ UNCHANGED <<conversations, convSeq, inbox, received, socketService>>
    /\ createH[k].pc = "failed" => createH'[k].pc = "failed"

C16_OnlyFriendsConverse ==
  /\ \A c \in conversations : c.participants \in friendships
  /\ \A i \in Instances : \A j \in 1..Len(inbox[i]) :
       inbox[i][j].type = "conversation_created" => inbox[i][j].participantIds \in friendships

C16_NonFriendsCreateNothing == [][C16_FailedStep]_vars /\ []C16_OnlyFriendsConverse

\* a request of u2 for a conversation with u3, who is not a friend, has failed
C16_Witness ==
  \E k \in 1..MaxCreates :
    /\ createH[k].pc = "failed"
    /\ createH[k].creatorId = "u2" /\ createH[k].peerId = "u3"

(***************************************************************************)
(* C17: every successful creation is broadcast to the peer: once the       *)
(* create call has returned, every live connection of the peer, on         *)
(* whichever instance holds it, eventually has received conversation:new   *)
(* with the id and the device pair of the conversation the call returned.  *)
(***************************************************************************)
PeerNotified(k) ==
  \A s \in Sockets :
    (Connected(s) /\ SocketUser(s) = createH[k].peerId)
    => \E j \in 1..Len(received[s]) :
         /\ received[s][j].type = "conversation:new"
         /\ received[s][j].id = createH[k].result
         /\ received[s][j].createdByDeviceId = createH[k].resultCreatedBy
         /\ received[s][j].targetDeviceId = createH[k].resultTarget

C17_CreationBroadcastToPeer ==
  \A k \in 1..MaxCreates : (createH[k].pc = "done") ~> PeerNotified(k)

\* u1's request created a conversation with u2, and u2's connection s4, on the
\* other instance, has the event
C17_Witness ==
  \E k \in 1..MaxCreates :
    /\ createH[k].pc = "done"
    /\ createH[k].creatorId = "u1" /\ createH[k].peerId = "u2"
    /\ createH[k].result \in ConvIds
    /\ \E j \in 1..Len(received["s4"]) :
         /\ received["s4"][j].type = "conversation:new"
         /\ received["s4"][j].id = createH[k].result

(***************************************************************************)
(* C13: when the open conversation is locked for the client's device, an   *)
(* outgoing send is rejected at the client before any network call: the    *)
(* send handler does not start, no key request is made, no message:send is *)
(* emitted and no message of the client's user is persisted in a           *)
(* conversation locked for the client.                                     *)
(***************************************************************************)
LockedFor(c, id) ==
  \E v \in clientConversations[c] : v.id = id /\ LockedBySpec(v, device[c])

C13_LockedSubmitStep ==
  \A c \in Clients :
    (LockedFor(c, activeConversation[c]) /\ composer[c].pc = "idle"
       /\ composer'[c] # composer[c])
    => /\ composer'[c].pc = "idle"
       /\ UNCHANGED <<requests, sharedKeys, messages, inbox, received, sendH, socketService>>

C13_NothingSentWhenLocked ==
  \A c \in Clients :
    /\ \A r \in requests[c] : ~LockedFor(c, r.conversationId)
    /\ \A m \in messages :
         (m.senderUserId = SocketUser(c) /\ m.senderDeviceId = device[c])
         => ~LockedFor(c, m.conversationId)

C13_LockedSendRejectedAtClient ==
  [][C13_LockedSubmitStep]_vars /\ []C13_NothingSentWhenLocked

\* u1's client has a text in the composer, has the locked conversation 2
\* open, and its submit was refused
C13_Witness ==
  /\ LockedFor("s1", activeConversation["s1"])
  /\ composer["s1"].messageText # ""
  /\ composer["s1"].blocked

(***************************************************************************)
(* C19: in the conversation of sender device a1 and recipient device b1,   *)
(* the recipient's connection receives message:new with exactly the        *)
(* ciphertext and nonce the sender's client emitted, the sender encrypts   *)
(* with the key of (a1, b1), and the device-key attempt of the recipient's *)
(* decryptMessage, made while the API answers, selects that same key and   *)
(* recovers exactly the sent plaintext.                                    *)
(***************************************************************************)
SentBy(c) == {r \in requests[c] : r.call = "message:send"}

C19_ReceivedAsSent ==
  \A k \in 1..Len(received["s4"]) :
    LET ev == received["s4"][k]
    IN ev.type = "message:new" =>
         \E r \in SentBy("s1") :
           /\ r.payload = [ciphertext |-> ev.ciphertext, nonce |-> ev.nonce]
           /\ r.conversationId = ev.conversationId
           /\ ev.senderDeviceId = "a1"
           /\ r.payload.ciphertext.key = {"a1", "b1"}

C19_DecryptedAsSent ==
  \A m \in clientMessages["s4"] :
    m.decryptedText \notin {Decrypting, KeyNotAvailable, NoRecipient, Redacted}
    => \E r \in SentBy("s1") : /\ r.payload.ciphertext = m.ciphertext
                               /\ r.payload.ciphertext.text = m.decryptedText

C19_DeviceKeyStep ==
  (decryptH["s4"].pc = "deviceKey" /\ keysApi["s4"]
     /\ decryptH'["s4"] # decryptH["s4"])
  => /\ decryptH'["s4"].pc = "idle"
     /\ [userId |-> "u1", deviceId |-> "a1", key |-> {"a1", "b1"}] \in sharedKeys'["s4"]
     /\ \E m \in clientMessages'["s4"] :
          /\ m.id = decryptH["s4"].messageId
          /\ m.decryptedText = m.ciphertext.text
          /\ m.decryptedText \in Plaintexts

C19_SenderAndRecipientAgreeOnKey ==
  []C19_ReceivedAsSent /\ []C19_DecryptedAsSent /\ [][C19_DeviceKeyStep]_vars

\* u2's client on b1 shows the plaintext of a message u1's client sent from a1,
\* after the key of u1's newest device a2 had failed to decrypt it
C19_Witness ==
  /\ \E m \in clientMessages["s4"] :
       /\ m.decryptedText \in Plaintexts
       /\ m.senderDeviceId = "a1"
       /\ \E r \in SentBy("s1") : r.payload.ciphertext = m.ciphertext
  /\ [userId |-> "u1", deviceId |-> "a1", key |-> {"a1", "b1"}] \in sharedKeys["s4"]
  /\ [userId |-> "u1", deviceId |-> NoDevice, key |-> {"a2", "b1"}] \in sharedKeys["s4"]

(***************************************************************************)
(* C18: a message left '[Key not available]' whose key is available from   *)
(* some moment before the second retry has fired, and stays available, is  *)
(* eventually shown decrypted without the user doing anything, whatever    *)
(* the first retry did.                                                    *)
(***************************************************************************)
KeyMissing(c) == \E m \in clientMessages[c] : m.decryptedText = KeyNotAvailable

SecondRetryNotFired(c) ==
  decryptH[c].attempt < 2 \/ (decryptH[c].attempt = 2 /\ decryptH[c].pc = "timer")

ShownDecrypted(c) ==
  \A m \in clientMessages[c] : m.decryptedText \in Plaintexts

C18_RetryConverges ==
  \A c \in Receivers :
    []((KeyMissing(c) /\ SecondRetryNotFired(c) /\ []keysApi[c]) => <>ShownDecrypted(c))

(***************************************************************************)
(* C20: a client that has reconnected and stays connected eventually holds *)
(* in its message store every message persisted in its conversations,      *)
(* those persisted while it was disconnected included.                     *)
(***************************************************************************)
HistoryComplete(c) ==
  \A m \in messages :
    isParticipant(m.conversationId, SocketUser(c))
    => \E x \in clientMessages[c] : x.id = m.id

C20_ReconnectRefetchesHistory ==
  \A c \in Receivers :
    <>[](sock[c] = "online") => <>[]HistoryComplete(c)

(***************************************************************************)
(* C21: the users:online snapshot a connection is sent, on authentication  *)
(* or on request:online-users, lists every user who has a live connection  *)
(* at that moment, on whichever gateway instance.                          *)
(***************************************************************************)
LiveUsers == {SocketUser(s) : s \in {x \in Sockets : sock[x] \in {"publishing", "online"}}}

C21_SnapshotIsFullOnlineSet ==
  [][\A s \in Sockets :
       (Len(received'[s]) = Len(received[s]) + 1
        /\ received'[s][Len(received'[s])].type = "users:online")
       => received'[s][Len(received'[s])].userIds = LiveUsers]_vars


(***************************************************************************)
(* C22: decryptMessage tries its candidates in a fixed order, each only    *)
(* after every earlier one failed: the key cached under the peer user id   *)
(* alone, then the key of the hinted peer device, then the key of each     *)
(* device registered by the peer, in turn.  It stops at the first success  *)
(* and sets the decrypted text to that plaintext; it records the failure   *)
(* state only after the last candidate failed.                             *)
(***************************************************************************)
Decrypts(m, keys) ==
  UNION {decryptMessage(m.ciphertext, m.nonce, k) : k \in keys} # {}

DecryptSteps == {"userKey", "deviceKey", "allDevices", "tryDevice"}

\* the devices of the peer the loop has gone past
TriedDevices(c, m) ==
  {d.id : d \in {x \in devices : x.userId = KeyUserId(c, m)}}
    \ {decryptH[c].queue[k] : k \in 1..Len(decryptH[c].queue)}

C22_EarlierCandidatesFailed ==
  \A c \in Receivers :
    decryptH[c].pc \in DecryptSteps \ {"userKey"} =>
      LET m == ClientMsg(c, decryptH[c].messageId)
      IN /\ ~Decrypts(m, CachedKey(c, KeyUserId(c, m), NoDevice))
         /\ (decryptH[c].pc \in {"allDevices", "tryDevice"}
              /\ OtherDeviceId(c, m) # NoDevice)
            => ~Decrypts(m, CachedKey(c, KeyUserId(c, m), OtherDeviceId(c, m)))
         /\ decryptH[c].pc = "tryDevice"
            => \A d \in TriedDevices(c, m) :
                 ~Decrypts(m, CachedKey(c, KeyUserId(c, m), d))

C22_Step ==
  \A c \in Receivers :
    (decryptH[c].pc \in DecryptSteps /\ decryptH'[c] # decryptH[c]) =>
      LET m == ClientMsg(c, decryptH[c].messageId)
          after == CHOOSE x \in clientMessages'[c] : x.id = m.id
          hinted == OtherDeviceId(c, m) # NoDevice
          last == decryptH[c].pc = "tryDevice" /\ decryptH[c].queue = <<>>
      IN /\ decryptH'[c].pc \in
              (CASE decryptH[c].pc = "userKey" ->
                      {"idle", IF hinted THEN "deviceKey" ELSE "allDevices"}
                 [] decryptH[c].pc = "deviceKey" -> {"idle", "allDevices"}
                 [] decryptH[c].pc = "allDevices" -> {"tryDevice"}
                 [] decryptH[c].pc = "tryDevice" ->
                      IF last THEN {"timer"} ELSE {"idle", "tryDevice"})
         /\ decryptH'[c].pc = "idle"
            <=> (after.decryptedText = m.ciphertext.text
                 /\ after.decryptedText \in Plaintexts)
         /\ decryptH'[c].pc # "idle"
            => after.decryptedText = (IF last THEN KeyNotAvailable
                                      ELSE m.decryptedText)
         /\ (decryptH[c].pc = "tryDevice" /\ ~last)
            => decryptH'[c].pc = "idle" \/ decryptH'[c].queue = Tail(decryptH[c].queue)

C22_CandidatesInOrder ==
  []C22_EarlierCandidatesFailed /\ [][C22_Step]_vars

\* the user key and the hinted device key have failed, the loop has gone
\* past the newest device of the peer and is about to try the sending one
C22_Witness ==
  /\ decryptH["s4"].pc = "tryDevice"
  /\ decryptH["s4"].queue = <<"a1">>
  /\ keysApi["s4"]
  /\ [userId |-> "u1", deviceId |-> NoDevice, key |-> {"a2", "b1"}] \in sharedKeys["s4"]
  /\ [userId |-> "u1", deviceId |-> "a2", key |-> {"a2", "b1"}] \in sharedKeys["s4"]
  /\ CachedKey("s4", "u1", "a1") = {}

(***************************************************************************)
(* C23: for a message whose every candidate key keeps failing the number   *)
(* of decryption rounds is bounded: after the first pass and the two       *)
(* retries no further attempt is made for it, the effect on the message    *)
(* store included.  With the keys API failing from some moment on, the     *)
(* page's decryption eventually comes to rest.                             *)
(***************************************************************************)
DecryptionAtRest(c) == decryptH[c].pc = "idle"

C23_RoundsBounded ==
  \A c \in Receivers : <>[](~keysApi[c]) => <>[]DecryptionAtRest(c)

(***************************************************************************)
(* C24: markRead for a message of the peer is withheld while the message   *)
(* is undecryptable, and a retry that succeeds, through the hinted device  *)
(* key or an enumerated one, for a message of the open conversation sends  *)
(* markRead for it.                                                        *)
(***************************************************************************)
C24_WithheldWhileUndecryptable ==
  \A c \in Receivers : \A m \in clientMessages[c] :
    (m.senderUserId # SocketUser(c) /\ m.decryptedText = KeyNotAvailable)
    => MarkReadCall(m) \notin requests[c]

C24_RetrySuccessMarksRead ==
  \A c \in Receivers :
    (decryptH[c].pc \in {"retryDeviceKey", "retryTryDevice"}
     /\ decryptH'[c].pc = "idle"
     /\ \E m \in clientMessages'[c] : /\ m.id = decryptH[c].messageId
                                      /\ m.decryptedText \in Plaintexts
                                      /\ m.conversationId = activeConversation[c]
                                      /\ m.senderUserId # SocketUser(c))
    => MarkReadCall(ClientMsg(c, decryptH[c].messageId)) \in requests'[c]

RetrySteps == {"timer", "retryDeviceKey", "retryAllDevices", "retryTryDevice"}

MessageGone(c) ==
  ~\E m \in clientMessages[c] : m.id = decryptH[c].messageId

C25_RetryAfterDeletionAppliesNothing ==
  [][\A c \in Receivers :
       (decryptH[c].pc \in RetrySteps /\ decryptH'[c] # decryptH[c] /\ MessageGone(c))
       => /\ clientMessages'[c] = clientMessages[c]
          /\ requests'[c] = requests[c]]_vars

(***************************************************************************)
(* C26: the lock predicate governs decryption.  A message of a             *)
(* conversation, loaded from the history or received live, gets a          *)
(* decryption attempt if and only if the conversation is not locked for    *)
(* the current device; when locked it is shown as '[REDACTED]' and no      *)
(* attempt is made.  The access check of loadMessages agrees with the lock *)
(* predicate on every combination of device ids.                           *)
(***************************************************************************)
LockedConversation(c, id) == isLocked(clientConversations[c], id, device[c])

C26_LiveMessage ==
  (seen'["s1"] = seen["s1"] + 1
   /\ received["s1"][seen["s1"] + 1].type = "message:new")
  => LET ev == received["s1"][seen["s1"] + 1]
         m == CHOOSE x \in clientMessages'["s1"] : x.id = ev.id
     IN IF LockedConversation("s1", ev.conversationId)
        THEN decryptH'["s1"].pc = "idle" /\ m.decryptedText = Redacted
        ELSE decryptH'["s1"].pc = "userKey" /\ m.decryptedText = Decrypting

C26_LoadedMessages ==
  (loadH["s1"].pc = "messages" /\ loadH'["s1"].pc # "messages")
  => LET id == loadH["s1"].conversationId
         rows == {x \in clientMessages'["s1"] : x.conversationId = id}
     IN IF LockedConversation("s1", id)
        THEN /\ loadH'["s1"].pc = "idle"
             /\ \A x \in rows : x.decryptedText = Redacted
        ELSE /\ loadH'["s1"].pc = "decrypt"
             /\ Len(loadH'["s1"].queue) = Cardinality(rows)
             /\ \A x \in rows : x.decryptedText = Decrypting

C26_LockGovernsDecryption ==
  [][C26_LiveMessage /\ C26_LoadedMessages]_vars

(***************************************************************************)
(* C27: when the second retry of a message has failed, the message is left *)
(* in a permanent failure state that differs both from the state of a      *)
(* message still being decrypted and from the transient failure state it   *)
(* had while retries were scheduled.                                       *)
(***************************************************************************)
SecondRetryFails(c) ==
  /\ decryptH[c].pc = "retryTryDevice"
  /\ decryptH[c].attempt = 2
  /\ decryptH[c].queue = <<>>
  /\ decryptH'[c].pc = "idle"

C27_PermanentFailureDistinct ==
  [][\A c \in Receivers :
       SecondRetryFails(c)
       => \A m \in clientMessages'[c] :
            m.id = decryptH[c].messageId
            => m.decryptedText \notin {Decrypting, KeyNotAvailable}]_vars

(***************************************************************************)
(* C28: under any interleaving of handleConnection and handleDisconnect    *)
(* for the connections of one user, once all of them have closed and every *)
(* handler and presence message has been processed, the last presence      *)
(* event each gateway emitted for the user is not user:online and no       *)
(* presence tracker holds an entry for the user.                           *)
(***************************************************************************)
AllClosed(u) ==
  /\ \A s \in SocketsOf(u) : sock[s] \in {"new", "closed"}
  /\ \E s \in SocketsOf(u) : sock[s] = "closed"
  /\ \A i \in Instances : \A k \in 1..Len(inbox[i]) :
       ~(inbox[i][k].type \in {"user_online", "user_offline"} /\ inbox[i][k].userId = u)

C28_OfflineIsLast ==
  \A u \in Users :
    AllClosed(u) => \A i \in Instances : /\ emitted[i][u] # "user:online"
                                         /\ u \notin DOMAIN userSockets[i]

(***************************************************************************)
(* C29: conversation-scoped events are confined to participants.  As       *)
(* stated: a connection never receives message:new, message:read or        *)
(* messages:deleted for a conversation its user is not a participant of.   *)
(* What holds: it never receives one for a conversation its user has never *)
(* been a participant of; a user who leaves while an event is on its way   *)
(* still gets that event.                                                  *)
(***************************************************************************)
\* the event a step appends to connection s, as a set
NewEvents(s) ==
  IF Len(received'[s]) = Len(received[s]) + 1
  THEN {received'[s][Len(received'[s])]} ELSE {}

\* the conversation an event belongs to; message:read names only the message,
\* whose conversation the emitting handleRead holds
EventConversation(ev) ==
  IF ev.type \in {"message:new", "messages:deleted"} THEN {ev.conversationId}
  ELSE IF ev.type = "message:read"
  THEN {readH[r].conversationId : r \in {x \in 1..MaxReads :
          readH[x].pc = "emit" /\ readH'[x].pc = "done" /\ readH[x].messageId = ev.id}}
  ELSE {}

\* the users who are or have been participants of a conversation
EverParticipants(id) ==
  UNION {c.participants : c \in {x \in TwoConversations : x.id = id}}

EventTypes(s, id) ==
  {received[s][k].type : k \in {x \in 1..Len(received[s]) :
      received[s][x].type = "message:read" \/ received[s][x].conversationId = id}}

Invocations(cb, d) ==
  Cardinality({i \in DOMAIN socketService.invoked :
                 socketService.invoked[i] = [callback |-> cb, data |-> d]})
\* what the event just dispatched carried, item by item
DispatchedData == {socketService.invoked[i].data : i \in DOMAIN socketService.invoked}
C30_ListenersAttachedOnce == socketService.listeners <= 1
C30_EachCallbackOnce ==
  socketService.event # "none" =>
    /\ \A cb \in Registered(EventCallbacks(socketService.event)) :
         /\ \E d \in DispatchedData : Invocations(cb, d) >= 1
         /\ \A d \in DispatchedData : Invocations(cb, d) = 1
    /\ \A i \in DOMAIN socketService.invoked :
         socketService.invoked[i].callback
           \in Registered(EventCallbacks(socketService.event))
====
